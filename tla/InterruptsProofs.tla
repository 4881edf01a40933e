-------------------------- MODULE InterruptsProofs --------------------------
(***************************************************************************)
(* Proofs about Interrupts for every set of interrupt numbers and handlers *)
(* and every depth of nesting.                                             *)
(***************************************************************************)
EXTENDS Interrupts, WellFoundedInduction, SequenceTheorems, TLAPS

-----------------------------------------------------------------------------
(* A set of numbers that is not empty has a least element.                 *)
LEMMA FirstIsPending ==
  ASSUME NEW S \in SUBSET Nat, S # {}
  PROVE  FirstOf(S) \in S
<1>1. PICK x \in S : \A y \in S : ~ (<<y, x>> \in OpToRel(<, Nat))
  BY NatLessThanWellFounded, WFMin
<1>2. \A y \in S : x <= y
  <2>1. SUFFICES ASSUME NEW y \in S, y < x
                 PROVE  FALSE
    OBVIOUS
  <2>2. <<y, x>> \in Nat \X Nat /\ <<y, x>>[1] < <<y, x>>[2]
    BY <2>1
  <2>3. <<y, x>> \in OpToRel(<, Nat)
    BY <2>2, Zenon DEF OpToRel
  <2>4. QED
    BY <1>1, <2>3
<1>3. QED
  BY <1>2 DEF FirstOf, Min

(* A stack with its top taken off.                                         *)
LEMMA PopTop ==
  ASSUME NEW S, NEW s \in Seq(S), s # <<>>
  PROVE  /\ Front(s) \in Seq(S) /\ Len(Front(s)) = Len(s) - 1
         /\ \A i \in 1 .. Len(s) - 1 : Front(s)[i] = s[i]
         /\ Last(s) = s[Len(s)] /\ Last(s) \in S /\ Len(s) \in Nat /\ Len(s) > 0
<1>1. Len(s) \in Nat /\ Len(s) > 0 /\ s[Len(s)] \in S
  BY LenProperties, EmptySeq, ElementOfSeq
<1>2. \A i \in 1 .. Len(s) - 1 : s[i] \in S
  BY <1>1, ElementOfSeq
<1>3. Front(s) \in Seq(S) /\ Len(Front(s)) = Len(s) - 1
         /\ \A i \in 1 .. Len(s) - 1 : Front(s)[i] = s[i]
  <2>1. PICK n \in Nat : n = Len(s) - 1
    BY <1>1
  <2>2. /\ SubSeq(s, 1, n) \in Seq(S)
        /\ Len(SubSeq(s, 1, n)) = IF 1 <= n THEN n - 1 + 1 ELSE 0
        /\ \A i \in 1 .. n - 1 + 1 : SubSeq(s, 1, n)[i] = s[1 + i - 1]
    BY <1>2, <2>1, SubSeqProperties
  <2>3. /\ Front(s) = SubSeq(s, 1, n) /\ n - 1 + 1 = n
        /\ \A i \in 1 .. n : 1 + i - 1 = i
    BY <2>1 DEF Front
  <2>4. QED
    BY <2>1, <2>2, <2>3
<1>4. QED
  BY <1>1, <1>3 DEF Last

(* A frame is pushed: the others stay.                                     *)
LEMMA PushTop ==
  ASSUME NEW S, NEW s \in Seq(S), NEW f \in S
  PROVE  LET r == Append(s, f)
         IN  /\ r \in Seq(S) /\ Len(r) = Len(s) + 1 /\ r[Len(s) + 1] = f
             /\ \A i \in 1 .. Len(s) : r[i] = s[i]
             /\ r # <<>> /\ Last(r) = f
  BY DEF Last

(* A stack with its top replaced.                                          *)
LEMMA ReplaceTop ==
  ASSUME NEW S, NEW s \in Seq(S), s # <<>>, NEW f \in S
  PROVE  LET r == Append(Front(s), f)
         IN  /\ r \in Seq(S) /\ Len(r) = Len(s) /\ r[Len(s)] = f /\ r # <<>>
             /\ \A i \in 1 .. Len(s) - 1 : r[i] = s[i]
<1>1. /\ Front(s) \in Seq(S) /\ Len(Front(s)) = Len(s) - 1
      /\ \A i \in 1 .. Len(s) - 1 : Front(s)[i] = s[i]
      /\ Len(s) \in Nat
  BY PopTop
<1>2. QED
  BY <1>1, PushTop

-----------------------------------------------------------------------------
(* The invariant.  Levels(n) is what the n outermost routines let through: *)
(* the outermost ones have all let others in, each the ones below itself,  *)
(* so the mask is that of the innermost that has; and the enables in the   *)
(* processor are those in memory under that mask, except while one of the  *)
(* program's calls is between the two, with interrupts disabled.           *)
Frames == [at : {"entry", "not irq", "pending", "dispatch", "handler", "acknowledged", "exit"},
           id : Nat, active : SUBSET IRQs, mask : SUBSET IRQs, open : BOOLEAN]

Calls == [at : {"idle", "handler", "context", "active", "enable", "disable", "ienable",
                "ienable alone", "leave"},
          id : Nat, handler : Handlers \cup {NULL}, reg : SUBSET IRQs]

Levels(n) == IF n = 0 THEN IRQs ELSE Below(frames[n].id)

Types ==
  /\ pie \in BOOLEAN /\ ienable \in SUBSET IRQs /\ alt_irq_active \in SUBSET IRQs
  /\ alt_priority_mask \in SUBSET IRQs
  /\ frames \in Seq(Frames) /\ saves \in Seq(BOOLEAN) /\ op \in Calls

Stack ==
  /\ \A n \in 1 .. Len(frames) - 1 : frames[n].open
  /\ frames # <<>> => pie = frames[Len(frames)].open
  /\ alt_priority_mask =
       Levels(IF frames # <<>> /\ ~frames[Len(frames)].open THEN Len(frames) - 1 ELSE Len(frames))

Frame(n) ==
  /\ frames[n].open =>
       frames[n].at \in {"handler", "acknowledged"} /\ frames[n].mask = Levels(n - 1)
  /\ frames[n].at = "dispatch" => frames[n].active \subseteq Levels(n - 1)
  /\ frames[n].at \in {"handler", "acknowledged"} =>
       frames[n].id \in IRQs /\ frames[n].id \in Levels(n - 1)

Nest ==
  /\ \A n \in 1 .. Len(frames) : Frame(n)
  /\ NestsUpwards

Prog ==
  /\ alt_irq_active = wanted
  /\ op.at # "idle" => pie = FALSE /\ frames = <<>> /\ op.id \in IRQs
  /\ op.at \in {"active", "enable", "disable"} => op.reg = alt_irq_active
  /\ op.at \notin {"ienable", "ienable alone"} => ienable = alt_irq_active \cap alt_priority_mask
  /\ op.at # "idle" => Len(saves) > 0
  /\ op.at \in {"active", "ienable"} => Len(saves) > 1 /\ Last(saves) = FALSE
  /\ op.at = "idle" => op = Idle

IInv == Types /\ Stack /\ Nest /\ Prog

(* The invariant holds at the start.                                       *)
LEMMA InitHolds == Init => IInv
  BY InterruptAssumption
  DEF Init, Idle, IInv, Types, Stack, Nest, Prog, Frame, Levels, Frames, Calls, NestsUpwards

-----------------------------------------------------------------------------
(* What replacing the innermost routine's frame preserves.                 *)
LEMMA TopMoves ==
  ASSUME IInv, frames # <<>>, NEW f \in Frames, Goes(f),
         f.open => f.at \in {"handler", "acknowledged"} /\ f.mask = Levels(Len(frames) - 1),
         f.at = "dispatch" => f.active \subseteq Levels(Len(frames) - 1),
         f.at \in {"handler", "acknowledged"} =>
           f.id \in IRQs /\ f.id \in Levels(Len(frames) - 1)
  PROVE  /\ frames' \in Seq(Frames) /\ frames' # <<>> /\ Len(frames') = Len(frames)
         /\ Len(frames) \in Nat /\ Len(frames) > 0 /\ frames'[Len(frames)] = f
         /\ \A n \in 1 .. Len(frames) - 1 : frames'[n] = frames[n] /\ frames'[n].open
         /\ \A n \in 0 .. Len(frames) - 1 : Levels(n)' = Levels(n)
         /\ Nest'
<1> DEFINE L == Len(frames)
<1>1. frames \in Seq(Frames)
  BY DEF IInv, Types
<1>2. L \in Nat /\ L > 0
  BY <1>1, PopTop
<1>3. /\ frames' \in Seq(Frames) /\ Len(frames') = L /\ frames'[L] = f /\ frames' # <<>>
      /\ \A n \in 1 .. L - 1 : frames'[n] = frames[n]
  BY <1>1, ReplaceTop DEF Goes
<1>4. \A n \in 1 .. L - 1 : frames[n].open
  BY DEF IInv, Stack
<1>5. \A n \in 0 .. L - 1 : Levels(n)' = Levels(n)
  <2>1. SUFFICES ASSUME NEW n \in 1 .. L - 1
                 PROVE  Levels(n)' = Levels(n)
    BY <1>2 DEF Levels
  <2>2. frames'[n] = frames[n]
    BY <1>3
  <2>3. QED
    BY <2>2 DEF Levels, Below
<1>6. \A n \in 1 .. L - 1 :
        /\ frames[n].at \in {"handler", "acknowledged"}
        /\ frames[n].id \in IRQs
  BY <1>2, <1>4 DEF IInv, Nest, Frame
<1>7. ASSUME NEW n \in 1 .. Len(frames')
      PROVE  Frame(n)'
  <2>1. CASE n < L
    <3>1. n \in 1 .. L - 1 /\ n \in 1 .. Len(frames) /\ n - 1 \in 0 .. L - 1
      BY <1>2, <1>3, <2>1
    <3>2. Frame(n) /\ frames'[n] = frames[n] /\ Levels(n - 1)' = Levels(n - 1)
      BY <1>3, <1>5, <3>1 DEF IInv, Nest
    <3>3. QED
      BY <3>2 DEF Frame
  <2>2. CASE n = L
    <3>1. frames'[n] = f /\ Levels(n - 1)' = Levels(n - 1)
      BY <1>2, <1>3, <1>5, <2>2
    <3>2. QED
      BY <2>2, <3>1 DEF Frame
  <2>3. QED
    BY <1>2, <1>3, <2>1, <2>2
<1>8. ASSUME NEW m \in 1 .. L, NEW n \in 1 .. L, m < n,
             frames'[n].at \in {"handler", "acknowledged"}
      PROVE  frames'[n].id < frames'[m].id
  <2>1. m \in 1 .. L - 1 /\ frames'[m] = frames[m] /\ frames[m].id \in IRQs
    BY <1>2, <1>3, <1>6, <1>8
  <2>2. CASE n < L
    <3>1. frames'[n] = frames[n] /\ m \in DOMAIN frames /\ n \in DOMAIN frames
      BY <1>1, <1>2, <1>3, <2>2, LenProperties
    <3>2. QED
      BY <1>8, <2>1, <3>1 DEF IInv, Nest, NestsUpwards
  <2>3. CASE n = L
    <3>1. frames'[n] = f /\ f.id \in IRQs /\ f.id \in Levels(L - 1)
      BY <1>3, <1>8, <2>3
    <3>2. L - 1 \in 1 .. L - 1 /\ f.id < frames[L - 1].id
      BY <1>2, <1>8, <2>3, <3>1 DEF Levels, Below
    <3>3. m = L - 1 \/ frames[L - 1].id < frames[m].id
      <4>1. m \in DOMAIN frames /\ L - 1 \in DOMAIN frames
        BY <1>1, <1>2, <3>2, LenProperties
      <4>2. QED
        <5>1. CASE m = L - 1
          BY <5>1
        <5>2. CASE m # L - 1
          <6>1. m < L - 1 /\ frames[L - 1].at \in {"handler", "acknowledged"}
            BY <1>2, <1>6, <2>1, <3>2, <5>2
          <6>2. QED
            BY <4>1, <6>1 DEF IInv, Nest, NestsUpwards
        <5>3. QED
          BY <5>1, <5>2
    <3>4. f.id \in Nat /\ frames[L - 1].id \in Nat /\ frames[m].id \in Nat
      BY <1>6, <2>1, <3>1, <3>2, InterruptAssumption
    <3>5. QED
      BY <2>1, <3>1, <3>2, <3>3, <3>4
  <2>4. QED
    BY <1>2, <2>2, <2>3
<1>9. DOMAIN frames' = 1 .. L
  BY <1>3, LenProperties
<1>10. NestsUpwards'
  BY <1>8, <1>9 DEF NestsUpwards
<1>11. QED
  BY <1>2, <1>3, <1>4, <1>5, <1>7, <1>10 DEF Nest

(* The same for a routine that begins, and for the innermost one's return. *)
LEMMA TopBegins ==
  ASSUME IInv, Taken, NEW f \in Frames, frames' = Append(frames, f), ~f.open, f.at = "entry"
  PROVE  /\ frames' \in Seq(Frames) /\ frames' # <<>> /\ frames'[Len(frames')] = f
         /\ \A n \in 1 .. Len(frames') - 1 : frames'[n].open
         /\ alt_priority_mask = Levels(Len(frames) - 1)'
         /\ Nest'
<1> DEFINE L == Len(frames)
<1>1. frames \in Seq(Frames) /\ L \in Nat /\ (frames # <<>> => L > 0) /\ (frames = <<>> => L = 0)
  BY PopTop, EmptySeq DEF IInv, Types
<1>2. /\ frames' \in Seq(Frames) /\ Len(frames') = L + 1 /\ frames'[L + 1] = f /\ frames' # <<>>
      /\ \A n \in 1 .. L : frames'[n] = frames[n]
  BY <1>1, PushTop
<1>3. \A n \in 1 .. L : frames[n].open
  <2>1. ASSUME frames # <<>>
        PROVE  frames[L].open
    BY <2>1 DEF IInv, Stack, Taken
  <2>2. \A n \in 1 .. L : n = L \/ n \in 1 .. L - 1
    BY <1>1
  <2>3. \A n \in 1 .. L - 1 : frames[n].open
    BY DEF IInv, Stack
  <2>4. QED
    BY <1>1, <2>1, <2>2, <2>3
<1>4. \A n \in 0 .. L : Levels(n)' = Levels(n)
  <2>1. SUFFICES ASSUME NEW n \in 1 .. L
                 PROVE  Levels(n)' = Levels(n)
    BY <1>1 DEF Levels
  <2>2. frames'[n] = frames[n]
    BY <1>2
  <2>3. QED
    BY <2>2 DEF Levels, Below
<1>5. alt_priority_mask = Levels(L)
  BY <1>1, <1>3 DEF IInv, Stack
<1>6. ASSUME NEW n \in 1 .. L + 1
      PROVE  Frame(n)'
  <2>1. CASE n = L + 1
    BY <1>2, <2>1 DEF Frame
  <2>2. CASE n # L + 1
    <3>1. n \in 1 .. L /\ n - 1 \in 0 .. L
      BY <1>1, <2>2
    <3>2. Frame(n) /\ frames'[n] = frames[n] /\ Levels(n - 1)' = Levels(n - 1)
      BY <1>2, <1>4, <3>1 DEF IInv, Nest
    <3>3. QED
      BY <3>2 DEF Frame
  <2>3. QED
    BY <2>1, <2>2
<1>7. NestsUpwards'
  <2>1. SUFFICES ASSUME NEW m \in DOMAIN frames', NEW n \in DOMAIN frames', m < n,
                        frames'[n].at \in {"handler", "acknowledged"}
                 PROVE  frames'[n].id < frames'[m].id
    BY DEF NestsUpwards
  <2>2. m \in 1 .. L + 1 /\ n \in 1 .. L + 1 /\ n # L + 1
    BY <1>2, <2>1, LenProperties
  <2>3. n \in 1 .. L /\ m \in 1 .. L
    BY <1>1, <2>1, <2>2
  <2>4. /\ frames'[m] = frames[m] /\ frames'[n] = frames[n]
        /\ m \in DOMAIN frames /\ n \in DOMAIN frames
    BY <1>1, <1>2, <2>3, LenProperties
  <2>5. QED
    BY <2>1, <2>4 DEF IInv, Nest, NestsUpwards
<1>8. QED
  <2>1. Len(frames') - 1 = L
    BY <1>1, <1>2
  <2>2. Nest'
    BY <1>2, <1>6, <1>7 DEF Nest
  <2>3. alt_priority_mask = Levels(Len(frames) - 1)'
    BY <1>1, <1>2, <1>4, <1>5 DEF Levels
  <2>4. QED
    BY <1>2, <1>3, <2>1, <2>2, <2>3

(* A frame returns to the one below it.                                    *)
LEMMA TopReturns ==
  ASSUME IInv, frames # <<>>, frames[Len(frames)].at = "exit", frames' = Front(frames)
  PROVE  /\ frames' \in Seq(Frames)
         /\ \A n \in 1 .. Len(frames') : frames'[n].open
         /\ frames' # <<>> => Len(frames') \in 1 .. Len(frames')
         /\ alt_priority_mask = Levels(Len(frames))'
         /\ Nest'
<1> DEFINE L == Len(frames)
<1>1. /\ frames \in Seq(Frames) /\ L \in Nat /\ L > 0
      /\ frames' \in Seq(Frames) /\ Len(frames') = L - 1
      /\ \A n \in 1 .. L - 1 : frames'[n] = frames[n]
  BY PopTop DEF IInv, Types
<1>2. \A n \in 1 .. L - 1 : frames[n].open
  BY DEF IInv, Stack
<1>3. \A n \in 0 .. L - 1 : Levels(n)' = Levels(n)
  <2>1. SUFFICES ASSUME NEW n \in 1 .. L - 1
                 PROVE  Levels(n)' = Levels(n)
    BY <1>1 DEF Levels
  <2>2. frames'[n] = frames[n]
    BY <1>1
  <2>3. QED
    BY <2>2 DEF Levels, Below
<1>4. alt_priority_mask = Levels(L - 1)
  <2>1. ~frames[L].open
    BY <1>1 DEF IInv, Nest, Frame
  <2>2. QED
    BY <2>1 DEF IInv, Stack
<1>5. ASSUME NEW n \in 1 .. L - 1
      PROVE  Frame(n)'
  <2>1. n \in 1 .. L /\ n - 1 \in 0 .. L - 1
    BY <1>1
  <2>2. Frame(n) /\ frames'[n] = frames[n] /\ Levels(n - 1)' = Levels(n - 1)
    BY <1>1, <1>3, <2>1 DEF IInv, Nest
  <2>3. QED
    BY <2>2 DEF Frame
<1>6. NestsUpwards'
  <2>1. SUFFICES ASSUME NEW m \in DOMAIN frames', NEW n \in DOMAIN frames', m < n,
                        frames'[n].at \in {"handler", "acknowledged"}
                 PROVE  frames'[n].id < frames'[m].id
    BY DEF NestsUpwards
  <2>2. m \in 1 .. L - 1 /\ n \in 1 .. L - 1
    BY <1>1, <2>1, LenProperties
  <2>3. /\ frames'[m] = frames[m] /\ frames'[n] = frames[n]
        /\ m \in DOMAIN frames /\ n \in DOMAIN frames
    BY <1>1, <2>2, LenProperties
  <2>4. QED
    BY <2>1, <2>3 DEF IInv, Nest, NestsUpwards
<1>7. QED
  <2>1. Nest'
    BY <1>1, <1>5, <1>6 DEF Nest
  <2>2. alt_priority_mask = Levels(Len(frames))'
    BY <1>1, <1>3, <1>4 DEF Levels
  <2>3. frames' # <<>> => Len(frames') > 0
    BY <1>1, EmptySeq
  <2>4. QED
    BY <1>1, <1>2, <2>1, <2>2, <2>3

-----------------------------------------------------------------------------
(* The innermost routine's own part of the invariant.                      *)
LEMMA TopKnows ==
  ASSUME IInv, frames # <<>>
  PROVE  /\ Top = frames[Len(frames)] /\ Top \in Frames /\ Frame(Len(frames))
         /\ op = Idle /\ pie = Top.open /\ ienable = alt_irq_active \cap alt_priority_mask
         /\ alt_priority_mask = IF Top.open THEN Below(Top.id) ELSE Levels(Len(frames) - 1)
<1>1. frames \in Seq(Frames)
  BY DEF IInv, Types
<1>2. Top = frames[Len(frames)] /\ Top \in Frames /\ Len(frames) \in Nat /\ Len(frames) > 0
  BY <1>1, PopTop DEF Top
<1>3. op = Idle /\ pie = Top.open /\ ienable = alt_irq_active \cap alt_priority_mask
  BY <1>2 DEF IInv, Stack, Prog
<1>4. alt_priority_mask = IF Top.open THEN Below(Top.id) ELSE Levels(Len(frames) - 1)
  BY <1>2 DEF IInv, Stack, Levels
<1>5. Frame(Len(frames))
  BY <1>2 DEF IInv, Nest
<1>6. QED
  BY <1>2, <1>3, <1>4, <1>5

(* A step of the innermost routine that leaves status.PIE, the mask and    *)
(* the enables as they belong to its new frame keeps the invariant.        *)
LEMMA TopStep ==
  ASSUME IInv, frames # <<>>, NEW f \in Frames, Goes(f),
         f.open => f.at \in {"handler", "acknowledged"} /\ f.mask = Levels(Len(frames) - 1),
         f.at = "dispatch" => f.active \subseteq Levels(Len(frames) - 1),
         f.at \in {"handler", "acknowledged"} =>
           f.id \in IRQs /\ f.id \in Levels(Len(frames) - 1),
         pie' = f.open,
         alt_priority_mask' = IF f.open THEN Below(f.id) ELSE Levels(Len(frames) - 1),
         ienable' = alt_irq_active \cap alt_priority_mask',
         UNCHANGED <<alt_irq_active, saves, op, wanted>>
  PROVE  IInv'
<1> DEFINE L == Len(frames)
<1>1. /\ frames' \in Seq(Frames) /\ frames' # <<>> /\ Len(frames') = L
      /\ L \in Nat /\ L > 0 /\ frames'[L] = f
      /\ \A n \in 1 .. L - 1 : frames'[n] = frames[n] /\ frames'[n].open
      /\ \A n \in 0 .. L - 1 : Levels(n)' = Levels(n)
      /\ Nest'
  BY TopMoves
<1>2. Stack'
  <2>1. Levels(L - 1) = IF L - 1 = 0 THEN IRQs ELSE Below(frames'[L - 1].id)
    BY <1>1 DEF Levels
  <2>2. f.open => alt_priority_mask' = IF L = 0 THEN IRQs ELSE Below(frames'[L].id)
    BY <1>1
  <2>3. QED
    BY <1>1, <2>1, <2>2 DEF Stack, Levels, Below
<1>3. Types'
  <2>1. Levels(L - 1) \subseteq IRQs /\ Below(f.id) \subseteq IRQs
    BY DEF Levels, Below
  <2>2. QED
    BY <1>1, <2>1 DEF IInv, Types, Frames
<1>4. Prog'
  BY TopKnows DEF IInv, Prog, Idle
<1>5. QED
  BY <1>1, <1>2, <1>3, <1>4 DEF IInv

-----------------------------------------------------------------------------
(* The steps of the interrupt routines.                                    *)
LEMMA RoutineKeeps ==
  ASSUME IInv, Routine
  PROVE  IInv'
<1>1. CASE InterruptTaken
  <2> DEFINE f == [at |-> "entry", id |-> 0, active |-> {}, mask |-> {}, open |-> FALSE]
  <2>1. f \in Frames /\ ~f.open /\ f.at = "entry"
    BY DEF Frames
  <2>2. /\ frames' \in Seq(Frames) /\ frames' # <<>> /\ frames'[Len(frames')] = f
        /\ \A n \in 1 .. Len(frames') - 1 : frames'[n].open
        /\ alt_priority_mask = Levels(Len(frames) - 1)'
        /\ Nest'
    BY <1>1, <2>1, TopBegins DEF InterruptTaken
  <2>3. Stack'
    <3>1. pie' = FALSE /\ alt_priority_mask' = alt_priority_mask /\ frames'[Len(frames')].open = FALSE
      BY <1>1, <2>1, <2>2 DEF InterruptTaken
    <3>2. alt_priority_mask' =
            Levels(IF frames # <<>> /\ ~frames[Len(frames)].open THEN Len(frames) - 1 ELSE Len(frames))'
      BY <2>2, <3>1
    <3>3. QED
      BY <2>2, <3>1, <3>2 DEF Stack
  <2>4. Types' /\ Prog'
    BY <1>1, <2>2 DEF IInv, Types, Prog, InterruptTaken, Taken, Idle
  <2>5. QED
    BY <2>2, <2>3, <2>4 DEF IInv
<1>2. CASE InterruptReturns
  <2>1. frames # <<>> /\ frames[Len(frames)].at = "exit" /\ frames' = Front(frames)
    BY <1>2, TopKnows DEF InterruptReturns, Runs
  <2>2. /\ frames' \in Seq(Frames)
        /\ \A n \in 1 .. Len(frames') : frames'[n].open
        /\ frames' # <<>> => Len(frames') \in 1 .. Len(frames')
        /\ alt_priority_mask = Levels(Len(frames))'
        /\ Nest'
    BY <2>1, TopReturns
  <2>3. Len(frames') \in Nat
    BY <2>2, LenProperties
  <2>4. Stack'
    <3>1. pie' = TRUE /\ alt_priority_mask' = alt_priority_mask
      BY <1>2 DEF InterruptReturns
    <3>2. frames' # <<>> => frames'[Len(frames')].open = TRUE
      BY <2>2 DEF Frames
    <3>3. alt_priority_mask' =
            Levels(IF frames # <<>> /\ ~frames[Len(frames)].open THEN Len(frames) - 1 ELSE Len(frames))'
      BY <2>2, <3>1, <3>2
    <3>4. \A n \in 1 .. Len(frames') - 1 : frames'[n].open
      BY <2>2, <2>3
    <3>5. QED
      BY <3>1, <3>2, <3>3, <3>4 DEF Stack
  <2>5. Types' /\ Prog'
    BY <1>2, <2>1, <2>2, TopKnows DEF IInv, Types, Prog, InterruptReturns, Idle
  <2>6. QED
    BY <2>2, <2>4, <2>5 DEF IInv
<1> DEFINE L == Len(frames)
<1>3. CASE EntryTests
  <2>1. PICK f \in Frames : f = [Top EXCEPT !.at = IF alt_irq_pending = {} THEN "not irq" ELSE "pending"]
    BY <1>3, TopKnows DEF EntryTests, Runs, Frames
  <2>2. f.at \in {"not irq", "pending"} /\ f.open = Top.open /\ Top.open = FALSE
    BY <1>3, <2>1, TopKnows DEF EntryTests, Runs, Frames, Frame
  <2>3. QED
    BY <1>3, <2>1, <2>2, TopKnows, TopStep DEF EntryTests, Runs, Processor
<1>4. CASE ReadPending
  <2>1. PICK f \in Frames : f = [Top EXCEPT !.at = "dispatch", !.active = alt_irq_pending]
    BY <1>4, TopKnows DEF ReadPending, Runs, Frames, alt_irq_pending, IInv, Types
  <2>2. f.at = "dispatch" /\ f.open = FALSE /\ Top.open = FALSE /\ f.active = alt_irq_pending
    BY <1>4, <2>1, TopKnows DEF ReadPending, Runs, Frames, Frame
  <2>3. f.active \subseteq Levels(L - 1)
    BY <1>4, <2>2, TopKnows DEF ReadPending, Runs, alt_irq_pending
  <2>4. QED
    BY <1>4, <2>1, <2>2, <2>3, TopKnows, TopStep DEF ReadPending, Runs, Processor
<1>5. CASE Dispatch
  <2>1. FirstOf(Top.active) \in Top.active /\ Top.active \subseteq Levels(L - 1)
        /\ Top.active \subseteq IRQs
    BY <1>5, TopKnows, FirstIsPending, InterruptAssumption DEF Dispatch, Runs, Frames, Frame
  <2>2. PICK f \in Frames : f = [Top EXCEPT !.at = "handler", !.id = FirstOf(Top.active), !.open = FALSE]
    BY <1>5, <2>1, TopKnows, InterruptAssumption DEF Dispatch, Runs, Frames
  <2>3. /\ f.at = "handler" /\ f.open = FALSE /\ Top.open = FALSE
        /\ f.id \in IRQs /\ f.id \in Levels(L - 1)
    BY <1>5, <2>1, <2>2, TopKnows DEF Dispatch, Runs, Frames, Frame
  <2>4. QED
    BY <1>5, <2>2, <2>3, TopKnows, TopStep DEF Dispatch, Runs, Processor
<1>6. CASE Acknowledge
  <2>1. PICK f \in Frames : f = [Top EXCEPT !.at = "acknowledged"]
    BY <1>6, TopKnows DEF Acknowledge, Runs, Frames
  <2>2. /\ f.at = "acknowledged" /\ f.open = Top.open /\ f.mask = Top.mask /\ f.id = Top.id
        /\ f.id \in IRQs /\ f.id \in Levels(L - 1)
        /\ f.open => f.mask = Levels(L - 1)
    BY <1>6, <2>1, TopKnows DEF Acknowledge, Runs, Frames, Frame
  <2>3. QED
    BY <1>6, <2>1, <2>2, TopKnows, TopStep DEF Acknowledge, Runs, Processor
<1>7. CASE alt_irq_non_interruptible
  <2>1. PICK f \in Frames : f = [Top EXCEPT !.open = FALSE]
    BY <1>7, TopKnows DEF alt_irq_non_interruptible, Runs, Frames
  <2>2. /\ f.at = "acknowledged" /\ f.open = FALSE /\ f.id = Top.id
        /\ f.id \in IRQs /\ f.id \in Levels(L - 1)
        /\ Top.mask = Levels(L - 1)
    BY <1>7, <2>1, TopKnows DEF alt_irq_non_interruptible, Runs, Frames, Frame
  <2>3. QED
    BY <1>7, <2>1, <2>2, TopKnows, TopStep DEF alt_irq_non_interruptible, Runs
<1>8. CASE HandlerReturns
  <2>1. PICK f \in Frames : f = [Top EXCEPT !.at = IF alt_irq_pending = {} THEN "exit" ELSE "dispatch",
                                            !.active = alt_irq_pending]
    BY <1>8, TopKnows DEF HandlerReturns, Runs, Frames, alt_irq_pending, IInv, Types
  <2>2. /\ f.at \in {"exit", "dispatch"} /\ f.open = FALSE /\ Top.open = FALSE
        /\ f.active = alt_irq_pending
    BY <1>8, <2>1, TopKnows DEF HandlerReturns, Runs, Frames
  <2>3. f.active \subseteq Levels(L - 1)
    BY <1>8, <2>2, TopKnows DEF HandlerReturns, Runs, alt_irq_pending
  <2>4. QED
    BY <1>8, <2>1, <2>2, <2>3, TopKnows, TopStep DEF HandlerReturns, Runs, Processor
<1>9. QED
  BY <1>1, <1>2, <1>3, <1>4, <1>5, <1>6, <1>7, <1>8 DEF Routine

-----------------------------------------------------------------------------
(* A step that leaves the stack and what belongs to it alone.              *)
LEMMA StackKept ==
  ASSUME IInv, UNCHANGED <<pie, alt_priority_mask, frames>>
  PROVE  Stack' /\ Nest'
  BY DEF IInv, Stack, Nest, Frame, NestsUpwards, Levels, Below

(* The program runs with the mask open and no routine in the stack.        *)
LEMMA NoneRuns ==
  ASSUME IInv, frames = <<>>, UNCHANGED <<alt_priority_mask, frames>>
  PROVE  alt_priority_mask = IRQs /\ Stack' /\ Nest'
<1>1. alt_priority_mask = IRQs
  BY EmptySeq DEF IInv, Stack, Levels
<1>2. QED
  BY <1>1, EmptySeq DEF Stack, Nest, NestsUpwards, Levels

(* The stack of contexts.                                                  *)
LEMMA DisablesAll ==
  ASSUME IInv, alt_irq_disable_all
  PROVE  /\ saves' \in Seq(BOOLEAN) /\ Len(saves') = Len(saves) + 1 /\ Len(saves) \in Nat
         /\ Last(saves') = pie /\ pie' = FALSE
  BY PushTop, LenProperties DEF IInv, Types, alt_irq_disable_all, Inhibited

(* Enabling restores what the matching disable found.                      *)
LEMMA EnablesAll ==
  ASSUME IInv, alt_irq_enable_all, Len(saves) > 0
  PROVE  /\ saves' \in Seq(BOOLEAN) /\ Len(saves') = Len(saves) - 1 /\ Len(saves) \in Nat
         /\ pie' = Last(saves) /\ pie' \in BOOLEAN
<1>1. saves \in Seq(BOOLEAN) /\ saves # <<>>
  BY EmptySeq DEF IInv, Types
<1>2. QED
  BY <1>1, PopTop DEF alt_irq_enable_all, Restored

(* The program's steps.                                                    *)
LEMMA ProgramKeeps ==
  ASSUME IInv, Call \/ DisableAll \/ EnableAll
  PROVE  IInv'
<1> USE DEF Program
<1>1. CASE DisableAll
  <2>1. Stack' /\ Nest'
    BY <1>1, NoneRuns DEF DisableAll
  <2>2. Types' /\ Prog'
    BY <1>1, DisablesAll DEF DisableAll, IInv, Types, Prog, Idle
  <2>3. QED
    BY <2>1, <2>2 DEF IInv
<1>2. CASE EnableAll
  <2>1. Stack' /\ Nest'
    BY <1>2, NoneRuns DEF EnableAll
  <2>2. Types' /\ Prog'
    <3>1. Len(saves) > 0
      BY <1>2, EmptySeq DEF EnableAll, IInv, Types
    <3>2. QED
      BY <1>2, <3>1, EnablesAll DEF EnableAll, IInv, Types, Prog, Idle
  <2>3. QED
    BY <2>1, <2>2 DEF IInv
<1>3. CASE WriteHandler
  <2>1. Stack' /\ Nest'
    BY <1>3, NoneRuns DEF WriteHandler
  <2>2. Types' /\ Prog'
    BY <1>3 DEF WriteHandler, IInv, Types, Prog, Calls
  <2>3. QED
    BY <2>1, <2>2 DEF IInv
<1>4. CASE WriteContext
  <2>1. Stack' /\ Nest'
    BY <1>4, NoneRuns DEF WriteContext
  <2>2. /\ saves' \in Seq(BOOLEAN) /\ Len(saves') = Len(saves) + 1 /\ Len(saves) \in Nat
        /\ Last(saves') = pie /\ pie' = FALSE
    BY <1>4, DisablesAll DEF WriteContext
  <2>3. pie = FALSE /\ Len(saves) > 0 /\ op.id \in IRQs
    BY <1>4 DEF WriteContext, IInv, Prog
  <2>4. op' \in Calls /\ op'.at = "active" /\ op'.id = op.id /\ op'.reg = alt_irq_active
    BY <1>4 DEF WriteContext, IInv, Types, Calls
  <2>5. Types'
    BY <1>4, <2>2, <2>4 DEF WriteContext, IInv, Types
  <2>6. Prog'
    BY <1>4, <2>2, <2>3, <2>4 DEF WriteContext, IInv, Prog
  <2>7. QED
    BY <2>1, <2>5, <2>6 DEF IInv
<1>5. CASE WriteActive
  <2>1. Stack' /\ Nest'
    BY <1>5, NoneRuns DEF WriteActive
  <2>2. op.id \in IRQs /\ op.reg = alt_irq_active
    BY <1>5 DEF WriteActive, IInv, Prog
  <2>3. alt_irq_active' \in SUBSET IRQs /\ alt_irq_active' = wanted'
    BY <1>5, <2>2 DEF WriteActive, With, IInv, Types, Prog
  <2>4. Types' /\ Prog'
    BY <1>5, <2>3 DEF WriteActive, IInv, Types, Prog, Calls
  <2>5. QED
    BY <2>1, <2>4 DEF IInv
<1>6. CASE WriteIenable
  <2>1. Stack' /\ Nest' /\ alt_priority_mask = IRQs
    BY <1>6, NoneRuns DEF WriteIenable
  <2>2. /\ saves' \in Seq(BOOLEAN) /\ Len(saves') = Len(saves) - 1 /\ Len(saves) \in Nat
        /\ pie' = Last(saves) /\ pie' \in BOOLEAN
    BY <1>6, EnablesAll DEF WriteIenable, IInv, Prog
  <2>3. Types'
    BY <1>6, <2>2, InterruptAssumption DEF WriteIenable, IInv, Types, Calls, Idle
  <2>4. ienable' = alt_irq_active' \cap alt_priority_mask'
    BY <1>6, <2>1 DEF WriteIenable, IInv, Types
  <2>5. Prog'
    <3>1. CASE op.at = "ienable"
      <4>1. op' \in Calls /\ op'.at = "leave" /\ op'.id = op.id /\ op.id \in IRQs
        BY <1>6, <3>1 DEF WriteIenable, IInv, Types, Prog, Calls
      <4>2. pie' = FALSE /\ Len(saves') > 0
        BY <2>2, <3>1 DEF IInv, Prog
      <4>3. alt_irq_active' = wanted' /\ frames' = <<>>
        BY <1>6, <3>1 DEF WriteIenable, IInv, Prog
      <4>4. QED
        BY <2>4, <4>1, <4>2, <4>3 DEF Prog
    <3>2. CASE op.at = "ienable alone"
      <4>1. op' = Idle
        BY <1>6, <3>2 DEF WriteIenable
      <4>2. alt_irq_active' = wanted' /\ Idle.at = "idle"
        BY <1>6, <3>2 DEF WriteIenable, IInv, Prog, Idle
      <4>3. QED
        BY <2>4, <4>1, <4>2 DEF Prog
    <3>3. QED
      BY <1>6, <3>1, <3>2 DEF WriteIenable
  <2>6. QED
    BY <2>1, <2>3, <2>5 DEF IInv
<1>7. CASE RegisterReturns
  <2>1. Stack' /\ Nest'
    BY <1>7, NoneRuns DEF RegisterReturns
  <2>2. /\ saves' \in Seq(BOOLEAN) /\ pie' \in BOOLEAN
    BY <1>7, EnablesAll DEF RegisterReturns, IInv, Prog
  <2>3. QED
    BY <1>7, <2>1, <2>2, InterruptAssumption DEF RegisterReturns, IInv, Types, Prog, Calls, Idle
<1>8. QED
  BY <1>1, <1>2, <1>3, <1>4, <1>5, <1>6, <1>7 DEF Call

(* The program registers a handler, or enables or disables a request.        *)
LEMMA ProgramBegins ==
  ASSUME IInv, NEW i \in IRQs,
         \/ \E h \in Handlers \cup {NULL} : alt_irq_register(i, h)
         \/ \E enable \in BOOLEAN : alt_irq_enable_or_disable(i, enable)
  PROVE  IInv'
<1>1. i \in Nat
  BY InterruptAssumption
<1>2. CASE \E h \in Handlers \cup {NULL} : alt_irq_register(i, h)
  <2>1. Stack' /\ Nest'
    BY <1>2, NoneRuns DEF alt_irq_register, Program
  <2>2. PICK h \in Handlers \cup {NULL} : alt_irq_register(i, h)
    BY <1>2
  <2>3. /\ saves' \in Seq(BOOLEAN) /\ Len(saves') = Len(saves) + 1 /\ Len(saves) \in Nat
        /\ pie' = FALSE
    BY <2>2, DisablesAll DEF alt_irq_register
  <2>4. op' \in Calls /\ op'.at = "handler" /\ op'.id = i
    BY <1>1, <2>2 DEF alt_irq_register, Calls
  <2>5. Types'
    BY <2>2, <2>3, <2>4 DEF alt_irq_register, IInv, Types
  <2>6. Prog'
    BY <2>2, <2>3, <2>4 DEF alt_irq_register, Program, IInv, Prog, Idle
  <2>7. QED
    BY <2>1, <2>5, <2>6 DEF IInv
<1>3. CASE \E enable \in BOOLEAN : alt_irq_enable_or_disable(i, enable)
  <2>1. Stack' /\ Nest'
    BY <1>3, NoneRuns DEF alt_irq_enable_or_disable, Program
  <2>2. PICK enable \in BOOLEAN : alt_irq_enable_or_disable(i, enable)
    BY <1>3
  <2>3. /\ saves' \in Seq(BOOLEAN) /\ Len(saves') = Len(saves) + 1 /\ Len(saves) \in Nat
        /\ pie' = FALSE
    BY <2>2, DisablesAll DEF alt_irq_enable_or_disable
  <2>4. /\ op' \in Calls /\ op'.at \in {"enable", "disable"} /\ op'.id = i
        /\ op'.reg = alt_irq_active
    BY <1>1, <2>2 DEF alt_irq_enable_or_disable, Calls, IInv, Types
  <2>5. Types'
    BY <2>2, <2>3, <2>4 DEF alt_irq_enable_or_disable, IInv, Types
  <2>6. Prog'
    BY <2>2, <2>3, <2>4 DEF alt_irq_enable_or_disable, Program, IInv, Prog, Idle
  <2>7. QED
    BY <2>1, <2>5, <2>6 DEF IInv
<1>4. QED
  BY <1>2, <1>3

(* The steps of a handler that touch the enables, and of the devices.      *)
LEMMA HandlerKeeps ==
  ASSUME IInv, \/ alt_irq_interruptible
               \/ \E i \in IRQs, enable \in BOOLEAN : HandlerSets(i, enable)
               \/ \E i \in IRQs : DeviceAsks(i) \/ AckArrives(i)
  PROVE  IInv'
<1> DEFINE L == Len(frames)
<1>1. CASE alt_irq_interruptible
  <2>1. PICK f \in Frames : f = [Top EXCEPT !.open = TRUE, !.mask = alt_priority_mask]
    BY <1>1, TopKnows DEF alt_irq_interruptible, Runs, Frames, IInv, Types
  <2>2. /\ f.at = "handler" /\ f.open = TRUE /\ f.id = Top.id
        /\ f.id \in IRQs /\ f.id \in Levels(L - 1)
        /\ f.mask = Levels(L - 1)
    BY <1>1, <2>1, TopKnows DEF alt_irq_interruptible, Runs, Frames, Frame
  <2>3. QED
    BY <1>1, <2>1, <2>2, TopKnows, TopStep DEF alt_irq_interruptible, Runs
<1>2. CASE \E i \in IRQs, enable \in BOOLEAN : HandlerSets(i, enable)
  <2>1. PICK i \in IRQs, enable \in BOOLEAN : HandlerSets(i, enable)
    BY <1>2
  <2>2. Stack' /\ Nest'
    BY <2>1, StackKept DEF HandlerSets
  <2>3. alt_irq_active' \in SUBSET IRQs /\ alt_irq_active' = wanted'
    BY <2>1 DEF HandlerSets, With, IInv, Types, Prog
  <2>4. Types'
    BY <2>1, <2>3 DEF HandlerSets, IInv, Types
  <2>5. Prog'
    BY <2>1, <2>3, TopKnows DEF HandlerSets, Runs, IInv, Prog, Idle
  <2>6. QED
    BY <2>2, <2>4, <2>5 DEF IInv
<1>3. CASE \E i \in IRQs : DeviceAsks(i) \/ AckArrives(i)
  <2>1. UNCHANGED <<Processor, frames, saves, op, wanted>>
    BY <1>3 DEF DeviceAsks, AckArrives
  <2>2. Stack' /\ Nest'
    BY <2>1, StackKept DEF Processor
  <2>3. Types' /\ Prog'
    BY <2>1 DEF Processor, IInv, Types, Prog
  <2>4. QED
    BY <2>2, <2>3 DEF IInv
<1>4. QED
  BY <1>1, <1>2, <1>3

(* A step that changes nothing keeps the invariant.                        *)
LEMMA Unchanged ==
  ASSUME IInv, UNCHANGED vars
  PROVE  IInv'
<1>1. Stack' /\ Nest'
  BY StackKept DEF vars
<1>2. QED
  BY <1>1 DEF vars, IInv, Types, Prog

-----------------------------------------------------------------------------
(* The invariant holds for any interrupts, handlers and depth of nesting.  *)
THEOREM InterruptInvariance == Spec => []IInv
<1>1. IInv /\ [Next]_vars => IInv'
  BY RoutineKeeps, ProgramKeeps, ProgramBegins, HandlerKeeps, Unchanged DEF Next
<1>2. QED
  BY InitHolds, <1>1, PTL DEF Spec

(* An interrupt routine is only ever interrupted by higher priorities,     *)
(* however deep they nest (priv/alt_legacy_irq.h:101-104).                 *)
THEOREM OnlyHigherNest == Spec => []NestsUpwards
<1>1. IInv => NestsUpwards
  BY DEF IInv, Nest
<1>2. QED
  BY InterruptInvariance, <1>1, PTL

(* What the program and the handlers enable and disable adds up, and is    *)
(* what the processor has whenever neither of them is in the middle of it. *)
THEOREM EnablesAddUp == Spec => []NoUpdateLost
<1>1. IInv => NoUpdateLost
  <2>1. SUFFICES ASSUME IInv, frames = <<>>, op = Idle
                 PROVE  ienable = wanted
    BY DEF NoUpdateLost, IInv, Prog
  <2>2. alt_priority_mask = IRQs
    BY <2>1, EmptySeq DEF IInv, Stack, Levels
  <2>3. QED
    BY <2>1, <2>2 DEF IInv, Prog, Types, Idle
<1>2. QED
  BY InterruptInvariance, <1>1, PTL

-----------------------------------------------------------------------------
(* What an interrupt routine finds.  The table is whole except where the   *)
(* program's call is, with interrupts disabled; an acknowledgement on its  *)
(* way belongs to a routine that still waits for it, so it cannot take     *)
(* back what a routine further in was taken for.                           *)
Table ==
  /\ alt_irq \in [IRQs -> [handler : Handlers \cup {NULL}, context : Handlers \cup {NULL}]]
  /\ \A i \in IRQs :
       alt_irq[i].context = alt_irq[i].handler \/ (op.at = "context" /\ op.id = i)
  /\ \A i \in alt_irq_active :
       alt_irq[i].handler # NULL \/ (op.at \in {"context", "active"} /\ op.id = i /\ op.handler = NULL)
  /\ op.at \in {"context", "active"} => alt_irq[op.id].handler = op.handler
  /\ op.at = "enable" => alt_irq[op.id].handler # NULL

OnTheirWay ==
  \A i \in posted : \E n \in 1 .. Len(frames) : frames[n].at = "acknowledged" /\ frames[n].id = i

Found(n) ==
  /\ frames[n].at # "not irq"
  /\ frames[n].at \in {"entry", "pending"} => alt_irq_pending # {}
  /\ frames[n].at = "dispatch" =>
       /\ frames[n].active # {}
       /\ \A i \in frames[n].active :
            alt_irq[i].handler # NULL /\ alt_irq[i].context = alt_irq[i].handler

Served == Table /\ OnTheirWay /\ \A n \in 1 .. Len(frames) : Found(n)

(* Nothing is pending at the start.                                        *)
LEMMA InitServed == Init => Served
  BY EmptySeq DEF Init, Idle, Served, Table, OnTheirWay

(* The frame f found what it should, and waits for its acknowledgement.    *)
Serves(f) ==
  /\ UNCHANGED <<alt_irq, alt_irq_active, op>>
  /\ f.at # "not irq"
  /\ f.at \in {"entry", "pending"} => alt_irq_pending' # {}
  /\ f.at = "dispatch" =>
       /\ f.active # {}
       /\ \A i \in f.active :
            alt_irq[i].handler # NULL /\ alt_irq[i].context = alt_irq[i].handler
  /\ posted' \subseteq posted \cup (IF f.at = "acknowledged" THEN {f.id} ELSE {})
  /\ Top.at = "acknowledged" =>
       (f.at = "acknowledged" /\ f.id = Top.id) \/ Top.id \notin posted

(* What replacing the innermost routine's frame preserves.                 *)
LEMMA TopServes ==
  ASSUME IInv, IInv', Served, frames # <<>>, NEW f \in Frames, Goes(f), Serves(f)
  PROVE  Served'
<1> DEFINE L == Len(frames)
<1>1. /\ L \in Nat /\ L > 0 /\ Top = frames[L]
      /\ Len(frames') = L /\ frames'[L] = f
      /\ \A n \in 1 .. L - 1 : frames'[n] = frames[n]
  <2>1. frames \in Seq(Frames)
    BY DEF IInv, Types
  <2>2. L \in Nat /\ L > 0 /\ Top = frames[L]
    BY <2>1, PopTop DEF Top
  <2>3. Len(frames') = L /\ frames'[L] = f /\ \A n \in 1 .. L - 1 : frames'[n] = frames[n]
    BY <2>1, ReplaceTop DEF Goes
  <2>4. QED
    BY <2>2, <2>3
<1>2. Table'
  BY DEF Served, Table, Serves
<1>3. \A n \in 1 .. Len(frames') : Found(n)'
  <2>1. SUFFICES ASSUME NEW n \in 1 .. L
                 PROVE  Found(n)'
    BY <1>1
  <2>2. CASE n = L
    BY <1>1, <2>2 DEF Found, Serves
  <2>3. CASE n # L
    <3>1. n \in 1 .. Len(frames') - 1 /\ n \in 1 .. Len(frames')
      BY <1>1, <2>1, <2>3
    <3>2. frames'[n].at \in {"handler", "acknowledged"}
      BY <3>1 DEF IInv, Stack, Nest, Frame
    <3>3. QED
      BY <3>2 DEF Found
  <2>4. QED
    BY <2>2, <2>3
<1>4. OnTheirWay'
  <2>1. SUFFICES ASSUME NEW i \in posted'
                 PROVE  \E n \in 1 .. L : frames'[n].at = "acknowledged" /\ frames'[n].id = i
    BY <1>1 DEF OnTheirWay
  <2>2. CASE f.at = "acknowledged" /\ f.id = i
    BY <1>1, <2>2
  <2>3. CASE i \in posted /\ ~(f.at = "acknowledged" /\ f.id = i)
    <3>1. PICK n \in 1 .. L : frames[n].at = "acknowledged" /\ frames[n].id = i
      BY <2>3 DEF Served, OnTheirWay
    <3>2. n # L
      BY <1>1, <2>3, <3>1 DEF Serves
    <3>3. n \in 1 .. L - 1
      BY <1>1, <3>1, <3>2
    <3>4. QED
      BY <1>1, <3>1, <3>3
  <2>4. QED
    BY <2>1, <2>2, <2>3 DEF Serves
<1>5. QED
  BY <1>2, <1>3, <1>4 DEF Served

(* What is pending belongs to lines that have a whole entry in the table.  *)
LEMMA PendingIsWhole ==
  ASSUME IInv, Served, frames # <<>>
  PROVE  \A i \in alt_irq_pending :
           alt_irq[i].handler # NULL /\ alt_irq[i].context = alt_irq[i].handler
<1>1. op = Idle /\ ienable \subseteq alt_irq_active /\ alt_irq_active \subseteq IRQs
  BY TopKnows DEF IInv, Types
<1>2. QED
  BY <1>1 DEF Served, Table, alt_irq_pending, Idle

(* A step of a routine keeps Served.                                       *)
LEMMA RoutineServes ==
  ASSUME IInv, IInv', Served, Routine
  PROVE  Served'
<1> DEFINE L == Len(frames)
<1>1. CASE InterruptTaken
  <2> DEFINE f == [at |-> "entry", id |-> 0, active |-> {}, mask |-> {}, open |-> FALSE]
  <2>1. f \in Frames /\ frames \in Seq(Frames) /\ L \in Nat
    BY LenProperties DEF Frames, IInv, Types
  <2>2. /\ Len(frames') = L + 1 /\ frames'[L + 1] = f
        /\ \A n \in 1 .. L : frames'[n] = frames[n]
    BY <1>1, <2>1, PushTop DEF InterruptTaken
  <2>3. Table'
    BY <1>1 DEF InterruptTaken, Served, Table
  <2>4. OnTheirWay'
    <3>1. posted' = posted /\ \A n \in 1 .. L : n \in 1 .. L + 1
      BY <1>1, <2>1 DEF InterruptTaken, Devices
    <3>2. QED
      BY <2>2, <3>1 DEF Served, OnTheirWay
  <2>5. ASSUME NEW n \in 1 .. L + 1
        PROVE  Found(n)'
    <3>1. CASE n = L + 1
      <4>1. frames'[n].at = "entry" /\ alt_irq_pending' # {}
        BY <1>1, <2>2, <3>1 DEF InterruptTaken, Taken, alt_irq_pending, Devices
      <4>2. QED
        BY <4>1 DEF Found
    <3>2. CASE n # L + 1
      <4>1. n \in 1 .. Len(frames') - 1 /\ n \in 1 .. Len(frames')
        BY <2>1, <2>2, <3>2
      <4>2. frames'[n].at \in {"handler", "acknowledged"}
        BY <4>1 DEF IInv, Stack, Nest, Frame
      <4>3. QED
        BY <4>2 DEF Found
    <3>3. QED
      BY <3>1, <3>2
  <2>6. QED
    BY <2>2, <2>3, <2>4, <2>5 DEF Served
<1>2. CASE InterruptReturns
  <2>1. /\ frames # <<>> /\ L \in Nat /\ L > 0 /\ frames[L].at = "exit"
        /\ Len(frames') = L - 1 /\ \A n \in 1 .. L - 1 : frames'[n] = frames[n]
    BY <1>2, TopKnows, PopTop DEF InterruptReturns, Runs, IInv, Types
  <2>2. Table'
    BY <1>2 DEF InterruptReturns, Served, Table
  <2>3. OnTheirWay'
    <3>1. SUFFICES ASSUME NEW i \in posted
                   PROVE  \E n \in 1 .. L - 1 : frames'[n].at = "acknowledged" /\ frames'[n].id = i
      BY <1>2, <2>1 DEF OnTheirWay, InterruptReturns, Devices
    <3>2. PICK n \in 1 .. L : frames[n].at = "acknowledged" /\ frames[n].id = i
      BY DEF Served, OnTheirWay
    <3>3. n \in 1 .. L - 1
      BY <2>1, <3>2
    <3>4. QED
      BY <2>1, <3>2, <3>3
  <2>4. ASSUME NEW n \in 1 .. L - 1
        PROVE  Found(n)'
    <3>1. frames'[n] = frames[n] /\ frames[n].open /\ n \in 1 .. L
      BY <2>1 DEF IInv, Stack
    <3>2. frames[n].at \in {"handler", "acknowledged"}
      BY <3>1 DEF IInv, Nest, Frame
    <3>3. QED
      BY <3>1, <3>2 DEF Found
  <2>5. QED
    BY <2>1, <2>2, <2>3, <2>4 DEF Served
<1>3. CASE EntryTests
  <2>1. alt_irq_pending # {}
    <3>1. L \in 1 .. L /\ frames[L].at = "entry"
      <4>1. frames \in Seq(Frames) /\ frames # <<>>
        BY <1>3 DEF EntryTests, Runs, IInv, Types
      <4>2. L \in Nat /\ L > 0
        BY <4>1, PopTop
      <4>3. frames[L].at = "entry"
        BY <1>3, <4>1, TopKnows DEF EntryTests, Runs
      <4>4. QED
        BY <4>2, <4>3
    <3>2. QED
      BY <3>1 DEF Served, Found
  <2>2. PICK f \in Frames : f = [Top EXCEPT !.at = "pending"]
    BY <1>3, TopKnows DEF EntryTests, Runs, Frames
  <2>3. f.at = "pending" /\ Goes(f)
    BY <1>3, <2>1, <2>2, TopKnows DEF EntryTests, Runs, Frames
  <2>4. QED
    BY <1>3, <2>1, <2>3, TopKnows, TopServes DEF Serves, EntryTests, Runs, Processor, Devices, alt_irq_pending
<1>4. CASE ReadPending
  <2>1. alt_irq_pending # {}
    <3>1. L \in 1 .. L /\ frames[L].at = "pending"
      <4>1. frames \in Seq(Frames) /\ frames # <<>>
        BY <1>4 DEF ReadPending, Runs, IInv, Types
      <4>2. L \in Nat /\ L > 0
        BY <4>1, PopTop
      <4>3. frames[L].at = "pending"
        BY <1>4, <4>1, TopKnows DEF ReadPending, Runs
      <4>4. QED
        BY <4>2, <4>3
    <3>2. QED
      BY <3>1 DEF Served, Found
  <2>2. PICK f \in Frames : f = [Top EXCEPT !.at = "dispatch", !.active = alt_irq_pending]
    BY <1>4, TopKnows DEF ReadPending, Runs, Frames, alt_irq_pending, IInv, Types
  <2>3. f.at = "dispatch" /\ f.active = alt_irq_pending /\ Goes(f)
    BY <1>4, <2>2, TopKnows DEF ReadPending, Runs, Frames
  <2>4. QED
    BY <1>4, <2>1, <2>3, TopKnows, TopServes, PendingIsWhole DEF Serves, ReadPending, Runs, Processor, Devices
<1>5. CASE Dispatch
  <2>1. FirstOf(Top.active) \in Top.active /\ Top.active \subseteq IRQs
    BY <1>5, TopKnows, FirstIsPending, InterruptAssumption DEF Dispatch, Runs, Frames
  <2>2. PICK f \in Frames : f = [Top EXCEPT !.at = "handler", !.id = FirstOf(Top.active), !.open = FALSE]
    BY <1>5, <2>1, TopKnows, InterruptAssumption DEF Dispatch, Runs, Frames
  <2>3. f.at = "handler" /\ Goes(f)
    BY <1>5, <2>2, TopKnows DEF Dispatch, Runs, Frames
  <2>4. QED
    BY <1>5, <2>3, TopKnows, TopServes DEF Serves, Dispatch, Runs, Processor, Devices
<1>6. CASE Acknowledge
  <2>1. PICK f \in Frames : f = [Top EXCEPT !.at = "acknowledged"]
    BY <1>6, TopKnows DEF Acknowledge, Runs, Frames
  <2>2. f.at = "acknowledged" /\ f.id = Top.id /\ Goes(f)
    BY <1>6, <2>1, TopKnows DEF Acknowledge, Runs, Frames
  <2>3. QED
    BY <1>6, <2>2, TopKnows, TopServes DEF Serves, Acknowledge, Runs, Processor
<1>7. CASE alt_irq_non_interruptible
  <2>1. PICK f \in Frames : f = [Top EXCEPT !.open = FALSE]
    BY <1>7, TopKnows DEF alt_irq_non_interruptible, Runs, Frames
  <2>2. f.at = "acknowledged" /\ f.id = Top.id /\ Goes(f)
    BY <1>7, <2>1, TopKnows DEF alt_irq_non_interruptible, Runs, Frames
  <2>3. QED
    BY <1>7, <2>2, TopKnows, TopServes DEF Serves, alt_irq_non_interruptible, Runs, Devices
<1>8. CASE HandlerReturns
  <2>1. PICK f \in Frames : f = [Top EXCEPT !.at = IF alt_irq_pending = {} THEN "exit" ELSE "dispatch",
                                            !.active = alt_irq_pending]
    BY <1>8, TopKnows DEF HandlerReturns, Runs, Frames, alt_irq_pending, IInv, Types
  <2>2. /\ f.at \in {"exit", "dispatch"} /\ (f.at = "dispatch" => alt_irq_pending # {})
        /\ f.active = alt_irq_pending /\ Goes(f) /\ Top.id \notin posted
    BY <1>8, <2>1, TopKnows DEF HandlerReturns, Runs, Frames, ReadBack
  <2>3. QED
    BY <1>8, <2>2, TopKnows, TopServes, PendingIsWhole DEF Serves, HandlerReturns, Runs, Processor, Devices
<1>9. QED
  BY <1>1, <1>2, <1>3, <1>4, <1>5, <1>6, <1>7, <1>8 DEF Routine

(* The program's steps, with no routine in the stack.                      *)
LEMMA NothingToFind ==
  ASSUME Served, Program, UNCHANGED <<posted, frames>>, Table'
  PROVE  Served'
  BY EmptySeq DEF Program, Served, OnTheirWay

(* A step of the program keeps Served.                                     *)
LEMMA ProgramServes ==
  ASSUME IInv, Served,
         \/ Call \/ DisableAll \/ EnableAll
         \/ \E i \in IRQs, h \in Handlers \cup {NULL} : alt_irq_register(i, h)
         \/ \E i \in IRQs, enable \in BOOLEAN : alt_irq_enable_or_disable(i, enable)
  PROVE  Served'
<1>1. Program /\ UNCHANGED <<posted, frames>>
  BY DEF Call, DisableAll, EnableAll, WriteHandler, WriteContext, WriteActive, WriteIenable,
         RegisterReturns, alt_irq_register, alt_irq_enable_or_disable, Devices
<1>2. Table
  BY DEF Served
<1>3. CASE DisableAll \/ EnableAll
  <2>1. Table'
    BY <1>2, <1>3 DEF DisableAll, EnableAll, Table
  <2>2. QED
    BY <1>1, <2>1, NothingToFind
<1>4. CASE WriteHandler
  <2>1. op.id \in IRQs /\ op.handler \in Handlers \cup {NULL}
    BY <1>4 DEF WriteHandler, IInv, Types, Prog, Calls
  <2>2. op'.at = "context" /\ op'.id = op.id /\ op'.handler = op.handler
    BY <1>4 DEF WriteHandler, IInv, Types, Calls
  <2>3. \A i \in IRQs :
          /\ alt_irq'[i].context = alt_irq[i].context
          /\ alt_irq'[i].handler = IF i = op.id THEN op.handler ELSE alt_irq[i].handler
    BY <1>2, <1>4 DEF WriteHandler, Table
  <2>4. alt_irq' \in [IRQs -> [handler : Handlers \cup {NULL}, context : Handlers \cup {NULL}]]
    BY <1>2, <1>4, <2>1 DEF WriteHandler, Table
  <2>5. alt_irq_active' = alt_irq_active /\ alt_irq_active \subseteq IRQs /\ op.at = "handler"
    BY <1>4 DEF WriteHandler, IInv, Types
  <2>6. Table'
    BY <1>2, <2>1, <2>2, <2>3, <2>4, <2>5 DEF Table
  <2>7. QED
    BY <1>1, <2>6, NothingToFind
<1>5. CASE WriteContext
  <2>1. op.id \in IRQs /\ op.handler \in Handlers \cup {NULL}
    BY <1>5 DEF WriteContext, IInv, Types, Prog, Calls
  <2>2. op'.at = "active" /\ op'.id = op.id /\ op'.handler = op.handler
    BY <1>5 DEF WriteContext, IInv, Types, Calls
  <2>3. \A i \in IRQs :
          /\ alt_irq'[i].handler = alt_irq[i].handler
          /\ alt_irq'[i].context = IF i = op.id THEN op.handler ELSE alt_irq[i].context
    BY <1>2, <1>5 DEF WriteContext, Table
  <2>4. alt_irq' \in [IRQs -> [handler : Handlers \cup {NULL}, context : Handlers \cup {NULL}]]
    BY <1>2, <1>5, <2>1 DEF WriteContext, Table
  <2>5. alt_irq_active' = alt_irq_active /\ alt_irq_active \subseteq IRQs /\ op.at = "context"
    BY <1>5 DEF WriteContext, IInv, Types
  <2>6. Table'
    BY <1>2, <2>1, <2>2, <2>3, <2>4, <2>5 DEF Table
  <2>7. QED
    BY <1>1, <2>6, NothingToFind
<1>6. CASE WriteActive
  <2>1. op'.at \in {"ienable", "ienable alone"} /\ op.id \in IRQs /\ op.reg = alt_irq_active
    BY <1>6 DEF WriteActive, IInv, Types, Prog, Calls
  <2>2. alt_irq' = alt_irq /\ op.at \in {"active", "enable", "disable"}
        /\ alt_irq_active' = With(alt_irq_active, op.id, Enables)
    BY <1>6, <2>1 DEF WriteActive
  <2>3. Enables => alt_irq[op.id].handler # NULL
    BY <1>2, <2>2 DEF Enables, Table
  <2>4. ~Enables => op.at = "disable" \/ (op.at = "active" /\ op.handler = NULL)
    BY <2>2 DEF Enables
  <2>5. \A i \in alt_irq_active' : alt_irq[i].handler # NULL
    BY <1>2, <2>2, <2>3, <2>4 DEF With, Table
  <2>6. Table'
    BY <1>2, <2>1, <2>2, <2>5 DEF Table
  <2>7. QED
    BY <1>1, <2>6, NothingToFind
<1>7. CASE WriteIenable \/ RegisterReturns
  <2>1. /\ UNCHANGED <<alt_irq, alt_irq_active>> /\ op'.at \in {"idle", "leave"}
        /\ op.at \notin {"context", "active"}
    <3>1. op \in Calls
      BY DEF IInv, Types
    <3>2. CASE WriteIenable
      BY <3>1, <3>2 DEF WriteIenable, Idle, Calls
    <3>3. CASE RegisterReturns
      BY <3>1, <3>3 DEF RegisterReturns, Idle, Calls
    <3>4. QED
      BY <1>7, <3>2, <3>3
  <2>2. Table'
    BY <1>2, <2>1 DEF Table
  <2>3. QED
    BY <1>1, <2>2, NothingToFind
<1>8. CASE \E i \in IRQs, h \in Handlers \cup {NULL} : alt_irq_register(i, h)
  <2>1. UNCHANGED <<alt_irq, alt_irq_active>> /\ op'.at = "handler" /\ op.at = "idle"
    BY <1>8 DEF alt_irq_register, Idle
  <2>2. Table'
    BY <1>2, <2>1 DEF Table
  <2>3. QED
    BY <1>1, <2>2, NothingToFind
<1>9. CASE \E i \in IRQs, enable \in BOOLEAN : alt_irq_enable_or_disable(i, enable)
  <2>1. /\ UNCHANGED <<alt_irq, alt_irq_active>> /\ op.at = "idle"
        /\ op'.at \in {"enable", "disable"}
        /\ op'.at = "enable" => alt_irq[op'.id].handler # NULL
    BY <1>9 DEF alt_irq_enable_or_disable, Idle
  <2>2. Table'
    BY <1>2, <2>1 DEF Table
  <2>3. QED
    BY <1>1, <2>2, NothingToFind
<1>10. QED
  BY <1>3, <1>4, <1>5, <1>6, <1>7, <1>8, <1>9 DEF Call

(* A step of a handler or a device that leaves the stack and the table.    *)
LEMMA StillFound ==
  ASSUME IInv, Served, UNCHANGED <<frames, alt_irq, op>>,
         \A n \in 1 .. Len(frames) :
           frames[n].at \in {"entry", "pending"} => alt_irq_pending' # {}
  PROVE  \A n \in 1 .. Len(frames') : Found(n)'
  BY DEF Served, Found

(* A step of a handler keeps Served.                                       *)
LEMMA HandlerServes ==
  ASSUME IInv, IInv', Served,
         \/ alt_irq_interruptible
         \/ \E i \in IRQs, enable \in BOOLEAN : HandlerSets(i, enable)
  PROVE  Served'
<1> DEFINE L == Len(frames)
<1>1. CASE alt_irq_interruptible
  <2>1. PICK f \in Frames : f = [Top EXCEPT !.open = TRUE, !.mask = alt_priority_mask]
    BY <1>1, TopKnows DEF alt_irq_interruptible, Runs, Frames, IInv, Types
  <2>2. f.at = "handler" /\ Goes(f)
    BY <1>1, <2>1, TopKnows DEF alt_irq_interruptible, Runs, Frames
  <2>3. QED
    BY <1>1, <2>2, TopKnows, TopServes DEF Serves, alt_irq_interruptible, Runs, Devices
<1>2. CASE \E i \in IRQs, enable \in BOOLEAN : HandlerSets(i, enable)
  <2>1. PICK i \in IRQs, enable \in BOOLEAN : HandlerSets(i, enable)
    BY <1>2
  <2>2. frames # <<>> /\ Top.at = "handler" /\ UNCHANGED <<frames, alt_irq, op, posted>>
    BY <2>1 DEF HandlerSets, Runs, Devices
  <2>3. Top = frames[L] /\ L \in Nat /\ L > 0 /\ op = Idle
    <3>1. frames \in Seq(Frames)
      BY DEF IInv, Types
    <3>2. L \in Nat /\ L > 0
      BY <2>2, <3>1, PopTop
    <3>3. QED
      BY <2>2, <3>2, TopKnows
  <2>4. \A n \in 1 .. L : frames[n].at \notin {"entry", "pending"}
    <3>1. \A n \in 1 .. L : n = L \/ n \in 1 .. L - 1
      BY <2>3
    <3>2. \A n \in 1 .. L - 1 : n \in 1 .. L /\ frames[n].open
      BY <2>3 DEF IInv, Stack
    <3>3. \A n \in 1 .. L - 1 : frames[n].at \in {"handler", "acknowledged"}
      BY <3>2 DEF IInv, Nest, Frame
    <3>4. QED
      BY <2>2, <2>3, <3>1, <3>3
  <2>5. \A n \in 1 .. Len(frames') : Found(n)'
    BY <2>2, <2>4, StillFound
  <2>6. \A j \in alt_irq_active' : j \in alt_irq_active \/ alt_irq[j].handler # NULL
    BY <2>1 DEF HandlerSets, With
  <2>7. Table'
    BY <2>2, <2>3, <2>6 DEF Served, Table, Idle
  <2>8. OnTheirWay'
    BY <2>2 DEF Served, OnTheirWay
  <2>9. QED
    BY <2>5, <2>7, <2>8 DEF Served
<1>3. QED
  BY <1>1, <1>2

(* A device that asks only adds to what is pending; an acknowledgement     *)
(* that arrives ends an interrupt that no routine further in can be for.   *)
LEMMA DeviceServes ==
  ASSUME IInv, Served, NEW i \in IRQs, DeviceAsks(i) \/ AckArrives(i)
  PROVE  Served'
<1> DEFINE L == Len(frames)
<1>1. UNCHANGED <<frames, alt_irq, op, ienable, alt_irq_active>> /\ posted' \subseteq posted
  BY DEF DeviceAsks, AckArrives, Processor
<1>2. Table' /\ OnTheirWay'
  BY <1>1 DEF Served, Table, OnTheirWay
<1>3. ASSUME NEW n \in 1 .. L, frames[n].at \in {"entry", "pending"}
      PROVE  alt_irq_pending' # {}
  <2>1. alt_irq_pending # {}
    BY <1>3 DEF Served, Found
  <2>2. CASE DeviceAsks(i)
    BY <1>1, <2>1, <2>2 DEF DeviceAsks, alt_irq_pending
  <2>3. CASE AckArrives(i)
    <3>1. frames \in Seq(Frames) /\ frames # <<>> /\ L \in Nat /\ L > 0
      BY <1>3, LenProperties, EmptySeq DEF IInv, Types
    <3>2. PICK m \in 1 .. L : frames[m].at = "acknowledged" /\ frames[m].id = i
      BY <2>3 DEF AckArrives, Served, OnTheirWay
    <3>3. n = L
      <4>1. n \in 1 .. L - 1 => frames[n].open
        BY DEF IInv, Stack
      <4>2. ~frames[n].open
        BY <1>3 DEF IInv, Nest, Frame
      <4>3. QED
        BY <3>1, <4>1, <4>2
    <3>4. m < L /\ L - 1 # 0 /\ L - 1 \in 1 .. L - 1 /\ L - 1 \in 1 .. L /\ m \in 1 .. L - 1
      BY <1>3, <3>1, <3>2, <3>3
    <3>5. frames[L - 1].at \in {"handler", "acknowledged"} /\ frames[L - 1].id \in IRQs
      BY <3>4 DEF IInv, Stack, Nest, Frame
    <3>6. m = L - 1 \/ frames[L - 1].id < frames[m].id
      <4>1. m \in DOMAIN frames /\ L - 1 \in DOMAIN frames
        BY <3>1, <3>4, LenProperties
      <4>2. m = L - 1 \/ m < L - 1
        BY <3>1, <3>4
      <4>3. QED
        BY <3>5, <4>1, <4>2 DEF IInv, Nest, NestsUpwards
    <3>7. i \notin Below(frames[L - 1].id)
      <4>1. i \in Nat /\ frames[L - 1].id \in Nat
        BY <3>5, InterruptAssumption
      <4>2. frames[L - 1].id = i \/ frames[L - 1].id < i
        BY <3>2, <3>6
      <4>3. ~(i < frames[L - 1].id)
        BY <4>1, <4>2
      <4>4. QED
        BY <4>3 DEF Below
    <3>8. ienable \subseteq Below(frames[L - 1].id)
      <4>1. Top = frames[L] /\ ~Top.open
        BY <1>3, <3>1, <3>3, TopKnows DEF Frame
      <4>2. alt_priority_mask = Levels(L - 1) /\ ienable \subseteq alt_priority_mask
        BY <3>1, <4>1, TopKnows
      <4>3. L - 1 # 0
        BY <3>4
      <4>4. Levels(L - 1) = Below(frames[L - 1].id)
        BY <4>3 DEF Levels
      <4>5. QED
        BY <4>2, <4>4
    <3>9. QED
      BY <1>1, <2>1, <2>3, <3>7, <3>8 DEF AckArrives, alt_irq_pending
  <2>4. QED
    BY <2>2, <2>3
<1>4. \A n \in 1 .. Len(frames') : Found(n)'
  BY <1>1, <1>3, StillFound
<1>5. QED
  BY <1>2, <1>4 DEF Served

(* A routine always finds what it was taken for, and calls a registered    *)
(* handler with the context it was registered with, whatever the program,  *)
(* the handlers and the devices do.                                        *)
THEOREM AlwaysDispatchesWhole == Spec => []DispatchesWhole
<1>1. IInv /\ IInv' /\ Served /\ [Next]_vars => Served'
  <2>1. ASSUME IInv, Served, UNCHANGED vars
        PROVE  Served'
    BY <2>1 DEF vars, Served, Table, OnTheirWay, Found, alt_irq_pending
  <2>2. QED
    BY <2>1, RoutineServes, ProgramServes, HandlerServes, DeviceServes DEF Next
<1>2. IInv /\ Served => DispatchesWhole
  <2>1. IInv => DOMAIN frames = 1 .. Len(frames)
    BY LenProperties DEF IInv, Types
  <2>2. QED
    BY <2>1 DEF Served, Found, DispatchesWhole
<1>3. QED
  BY InterruptInvariance, InitServed, <1>1, <1>2, PTL DEF Spec
=============================================================================
