---------------------------- MODULE ConsoleProofs ----------------------------
(***************************************************************************)
(* Proofs about JtagUart: both directions of the console are streams, for  *)
(* every length of the rings and of the FIFOs, every place the rings begin *)
(* at, the small and the large driver, with and without an alarm, and      *)
(* every order of the program, the interrupt routine, the alarm and the    *)
(* host.                                                                   *)
(***************************************************************************)
EXTENDS JtagUart, SequenceTheorems, TLAPS

(* Positions are reduced modulo the ring's length, at most once either way. *)
LEMMA Wraps ==
  ASSUME JtagAssumption, NEW x \in Int
  PROVE  /\ x \in 0 .. BUF_LEN - 1 => x % BUF_LEN = x
         /\ x \in BUF_LEN .. 2 * BUF_LEN - 1 => x % BUF_LEN = x - BUF_LEN
         /\ x \in -BUF_LEN .. -1 => x % BUF_LEN = x + BUF_LEN
<1>1. BUF_LEN \in Nat /\ BUF_LEN > 1
  BY DEF JtagAssumption
<1>2. /\ x \div BUF_LEN \in Int /\ x % BUF_LEN \in 0 .. BUF_LEN - 1
      /\ x = BUF_LEN * (x \div BUF_LEN) + (x % BUF_LEN)
  BY <1>1
<1> DEFINE q == x \div BUF_LEN
           r == x % BUF_LEN
<1>3. ASSUME NEW k \in Int, q >= k PROVE BUF_LEN * q >= BUF_LEN * k
  BY <1>1, <1>2, <1>3
<1>4. ASSUME NEW k \in Int, q <= k PROVE BUF_LEN * q <= BUF_LEN * k
  BY <1>1, <1>2, <1>4
<1> HIDE DEF q, r
<1>5. q >= 2 \/ q = 1 \/ q = 0 \/ q = -1 \/ q <= -2
  BY <1>2 DEF q
<1>6. /\ q >= 2 => BUF_LEN * q >= BUF_LEN * 2
      /\ q <= -2 => BUF_LEN * q <= BUF_LEN * (-2)
  BY <1>3, <1>4
<1>7. x = BUF_LEN * q + r /\ r \in 0 .. BUF_LEN - 1
  BY <1>2 DEF q, r
<1>8. CASE q >= 2
  BY <1>1, <1>2, <1>6, <1>7, <1>8 DEF q, r
<1>9. CASE q = 1
  BY <1>1, <1>7, <1>9 DEF r
<1>10. CASE q = 0
  BY <1>1, <1>7, <1>10 DEF r
<1>11. CASE q = -1
  BY <1>1, <1>7, <1>11 DEF r
<1>12. CASE q <= -2
  BY <1>1, <1>2, <1>6, <1>7, <1>12 DEF q, r
<1>13. QED
  BY <1>5, <1>8, <1>9, <1>10, <1>11, <1>12

(* The places of a ring.                                                   *)
Places == 0 .. BUF_LEN - 1

(* The place n places further on, and how many places lie between two.     *)
On(place, n)  == (place + n) % BUF_LEN
Fill(in, out) == (in - out) % BUF_LEN

(* A step along the ring, and the two differences the driver computes: how *)
(* much a ring holds and how much it has room for.                         *)
LEMMA Moves ==
  ASSUME JtagAssumption
  PROVE  /\ \A p \in Places, k \in 0 .. BUF_LEN :
              On(p, k) = IF p + k < BUF_LEN THEN p + k ELSE p + k - BUF_LEN
         /\ \A p, o \in Places : Fill(p, o) = IF p >= o THEN p - o ELSE p - o + BUF_LEN
         /\ \A p, o \in Places : (o - p - 1) % BUF_LEN = BUF_LEN - 1 - Fill(p, o)
         /\ \A p \in Places, k \in 0 .. BUF_LEN : On(p, k) \in Places
         /\ \A p, o \in Places : Fill(p, o) \in Places
<1>1. BUF_LEN \in Nat /\ BUF_LEN > 1
  BY DEF JtagAssumption
<1>2. \A p \in Places, k \in 0 .. BUF_LEN :
        On(p, k) = IF p + k < BUF_LEN THEN p + k ELSE p + k - BUF_LEN
  <2> SUFFICES ASSUME NEW p \in Places, NEW k \in 0 .. BUF_LEN
               PROVE On(p, k) = IF p + k < BUF_LEN THEN p + k ELSE p + k - BUF_LEN
    OBVIOUS
  <2>1. p + k \in Int
    BY <1>1 DEF Places
  <2>2. p + k \in 0 .. BUF_LEN - 1 \/ p + k \in BUF_LEN .. 2 * BUF_LEN - 1
    BY <1>1 DEF Places
  <2>3. PICK x \in Int : x = p + k
    BY <2>1
  <2>4. /\ x \in 0 .. BUF_LEN - 1 => x % BUF_LEN = x
        /\ x \in BUF_LEN .. 2 * BUF_LEN - 1 => x % BUF_LEN = x - BUF_LEN
    BY Wraps
  <2>5. QED
    BY <1>1, <2>2, <2>3, <2>4 DEF On, Places
<1>3. \A p, o \in Places : Fill(p, o) = IF p >= o THEN p - o ELSE p - o + BUF_LEN
  <2> SUFFICES ASSUME NEW p \in Places, NEW o \in Places
               PROVE  Fill(p, o) = IF p >= o THEN p - o ELSE p - o + BUF_LEN
    OBVIOUS
  <2>1. p - o \in Int
    BY <1>1 DEF Places
  <2>2. p - o \in 0 .. BUF_LEN - 1 \/ p - o \in -BUF_LEN .. -1
    BY <1>1 DEF Places
  <2>3. /\ p - o \in 0 .. BUF_LEN - 1 => (p - o) % BUF_LEN = p - o
        /\ p - o \in -BUF_LEN .. -1 => (p - o) % BUF_LEN = p - o + BUF_LEN
    BY <2>1, Wraps
  <2>4. QED
    BY <1>1, <2>1, <2>2, <2>3 DEF Fill, Places
<1>4. \A p, o \in Places : (o - p - 1) % BUF_LEN = BUF_LEN - 1 - Fill(p, o)
  <2> SUFFICES ASSUME NEW p \in Places, NEW o \in Places
               PROVE  (o - p - 1) % BUF_LEN = BUF_LEN - 1 - Fill(p, o)
    OBVIOUS
  <2>1. o - p - 1 \in Int
    BY <1>1 DEF Places
  <2>2. o - p - 1 \in 0 .. BUF_LEN - 1 \/ o - p - 1 \in -BUF_LEN .. -1
    BY <1>1 DEF Places
  <2>3. (o - p - 1) % BUF_LEN = IF o - p - 1 >= 0 THEN o - p - 1 ELSE o - p - 1 + BUF_LEN
    BY <1>1, <2>1, <2>2, Wraps
  <2>4. p \in Int /\ o \in Int
    BY <1>1 DEF Places
  <2>5. QED
    BY <1>1, <1>3, <2>3, <2>4
<1>5. \A p \in Places, k \in 0 .. BUF_LEN : On(p, k) \in Places
  BY <1>1, <1>2 DEF Places
<1>6. \A p, o \in Places : Fill(p, o) \in Places
  BY <1>1, <1>3 DEF Places
<1>7. QED
  BY <1>2, <1>3, <1>4, <1>5, <1>6

(* A FIFO with the characters after a up to b.                             *)
FifoHolds(fifo, a, b) ==
  /\ fifo \in Seq(Nat) /\ a \in Nat /\ b \in Nat
  /\ Len(fifo) = b - a /\ Len(fifo) <= Depth
  /\ \A i \in 1 .. b - a : fifo[i] = a + i

(* A ring with the characters after a up to b.                             *)
RingHolds(buf, in, out, a, b) ==
  /\ buf \in [Places -> Nat] /\ in \in Places /\ out \in Places
  /\ a \in Nat /\ b \in Nat
  /\ b - a = Fill(in, out)
  /\ \A j \in 0 .. b - a - 1 : buf[On(out, j)] = a + j + 1

(* Two steps make one; a step of the head or of the tail changes what the  *)
(* ring holds by as much.                                                  *)
LEMMA Further ==
  ASSUME JtagAssumption, NEW p \in Places, NEW o \in Places, NEW k \in 0 .. BUF_LEN - 1
  PROVE  /\ \A j \in 0 .. BUF_LEN - 1 - k : On(On(p, k), j) = On(p, k + j)
         /\ k + Fill(p, o) <= BUF_LEN - 1 => Fill(On(p, k), o) = Fill(p, o) + k
         /\ k <= Fill(p, o) => Fill(p, On(o, k)) = Fill(p, o) - k
         /\ On(o, Fill(p, o)) = p
         /\ Fill(On(p, k), p) = k
<1>1. BUF_LEN \in Nat /\ BUF_LEN > 1
  BY DEF JtagAssumption
<1>2. k \in 0 .. BUF_LEN
  BY <1>1
<1>3. PICK q \in Places : q = On(p, k) /\ q = IF p + k < BUF_LEN THEN p + k ELSE p + k - BUF_LEN
  BY <1>2, Moves
<1>4. PICK r \in Places : r = On(o, k) /\ r = IF o + k < BUF_LEN THEN o + k ELSE o + k - BUF_LEN
  BY <1>2, Moves
<1>5. PICK f \in Places : f = Fill(p, o) /\ f = IF p >= o THEN p - o ELSE p - o + BUF_LEN
  BY Moves
<1>6. \A j \in 0 .. BUF_LEN - 1 - k : On(q, j) = On(p, k + j)
  <2> SUFFICES ASSUME NEW j \in 0 .. BUF_LEN - 1 - k PROVE On(q, j) = On(p, k + j)
    OBVIOUS
  <2>1. j \in 0 .. BUF_LEN /\ k + j \in 0 .. BUF_LEN
    BY <1>1
  <2>2. On(q, j) = IF q + j < BUF_LEN THEN q + j ELSE q + j - BUF_LEN
    BY <2>1, Moves
  <2>3. On(p, k + j) = IF p + (k + j) < BUF_LEN THEN p + (k + j) ELSE p + (k + j) - BUF_LEN
    BY <2>1, Moves
  <2>4. QED
    BY <1>1, <1>3, <2>2, <2>3 DEF Places
<1>7. k + f <= BUF_LEN - 1 => Fill(q, o) = f + k
  <2>1. Fill(q, o) = IF q >= o THEN q - o ELSE q - o + BUF_LEN
    BY Moves
  <2>2. QED
    BY <1>1, <1>3, <1>5, <2>1 DEF Places
<1>8. k <= f => Fill(p, r) = f - k
  <2>1. Fill(p, r) = IF p >= r THEN p - r ELSE p - r + BUF_LEN
    BY Moves
  <2>2. QED
    BY <1>1, <1>4, <1>5, <2>1 DEF Places
<1>9. On(o, f) = p
  <2>1. f \in 0 .. BUF_LEN
    BY <1>1 DEF Places
  <2>2. On(o, f) = IF o + f < BUF_LEN THEN o + f ELSE o + f - BUF_LEN
    BY <2>1, Moves
  <2>3. QED
    BY <1>1, <1>5, <2>2 DEF Places
<1>10. Fill(q, p) = k
  <2>1. Fill(q, p) = IF q >= p THEN q - p ELSE q - p + BUF_LEN
    BY Moves
  <2>2. QED
    BY <1>1, <1>3, <2>1 DEF Places
<1>11. QED
  BY <1>3, <1>4, <1>5, <1>6, <1>7, <1>8, <1>9, <1>10

(* The same for all places.                                                *)
LEMMA FillMoves ==
  ASSUME JtagAssumption
  PROVE  \A p, o \in Places, k \in 0 .. BUF_LEN - 1 :
           /\ k + Fill(p, o) <= BUF_LEN - 1 => Fill(On(p, k), o) = Fill(p, o) + k
           /\ k <= Fill(p, o) => Fill(p, On(o, k)) = Fill(p, o) - k
BY Further

(* What is taken from a ring is the next in order.                         *)
LEMMA RingTake ==
  ASSUME JtagAssumption, NEW buf, NEW in, NEW out, NEW a, NEW b,
         RingHolds(buf, in, out, a, b), NEW k \in Nat, k <= b - a
  PROVE  /\ RingHolds(buf, in, On(out, k), a + k, b)
         /\ \A j \in 0 .. k - 1 : buf[On(out, j)] = a + j + 1
<1>1. BUF_LEN \in Nat /\ BUF_LEN > 1
  BY DEF JtagAssumption
<1>2. /\ in \in Places /\ out \in Places /\ a \in Nat /\ b \in Nat /\ buf \in [Places -> Nat]
      /\ b - a = Fill(in, out) /\ Fill(in, out) \in Places
      /\ \A j \in 0 .. b - a - 1 : buf[On(out, j)] = a + j + 1
  BY Moves DEF RingHolds
<1>3. k \in 0 .. BUF_LEN - 1 /\ k \in 0 .. BUF_LEN
  BY <1>1, <1>2 DEF Places
<1>4. /\ On(out, k) \in Places
      /\ Fill(in, On(out, k)) = Fill(in, out) - k
      /\ \A j \in 0 .. BUF_LEN - 1 - k : On(On(out, k), j) = On(out, k + j)
  <2>1. On(out, k) \in Places
    BY <1>2, <1>3, Moves
  <2>2. Fill(in, On(out, k)) = Fill(in, out) - k
    <3>1. k <= Fill(in, out)
      BY <1>2
    <3>2. QED
      BY <1>2, <1>3, <3>1, Further
  <2>3. \A j \in 0 .. BUF_LEN - 1 - k : On(On(out, k), j) = On(out, k + j)
    BY <1>2, <1>3, Further
  <2>4. QED
    BY <2>1, <2>2, <2>3
<1>5. ASSUME NEW j \in 0 .. b - (a + k) - 1
      PROVE  buf[On(On(out, k), j)] = (a + k) + j + 1
  <2>1. j \in 0 .. BUF_LEN - 1 - k /\ k + j \in 0 .. b - a - 1
    BY <1>1, <1>2, <1>3 DEF Places
  <2>2. buf[On(out, k + j)] = a + (k + j) + 1
    BY <1>2, <2>1
  <2>3. QED
    BY <1>2, <1>4, <2>1, <2>2
<1>6. b - (a + k) = Fill(in, On(out, k)) /\ a + k \in Nat
  BY <1>2, <1>4 DEF Places
<1>7. RingHolds(buf, in, On(out, k), a + k, b)
  BY <1>2, <1>4, <1>5, <1>6 DEF RingHolds
<1>8. \A j \in 0 .. k - 1 : buf[On(out, j)] = a + j + 1
  BY <1>2
<1>9. QED
  BY <1>7, <1>8

(* Characters written from the head on, the others left alone, join those  *)
(* the ring holds.                                                         *)
LEMMA RingGrows ==
  ASSUME JtagAssumption, NEW buf, NEW in, NEW out, NEW a, NEW b,
         RingHolds(buf, in, out, a, b), NEW k \in Nat, k + Fill(in, out) <= BUF_LEN - 1,
         NEW buf2 \in [Places -> Nat],
         \A j \in 0 .. k - 1 : buf2[On(in, j)] = b + j + 1,
         \A i \in Places : Fill(i, in) >= k => buf2[i] = buf[i]
  PROVE  RingHolds(buf2, On(in, k), out, a, b + k)
<1>1. BUF_LEN \in Nat /\ BUF_LEN > 1
  BY DEF JtagAssumption
<1>2. /\ in \in Places /\ out \in Places /\ a \in Nat /\ b \in Nat /\ buf \in [Places -> Nat]
      /\ b - a = Fill(in, out) /\ Fill(in, out) \in Places
      /\ \A j \in 0 .. b - a - 1 : buf[On(out, j)] = a + j + 1
  BY Moves DEF RingHolds
<1>3. k \in 0 .. BUF_LEN - 1 /\ k \in 0 .. BUF_LEN
  <2>1. PICK f \in Places : f = Fill(in, out)
    BY <1>2
  <2>2. f \in Nat /\ k + f <= BUF_LEN - 1
    BY <1>1, <2>1 DEF Places
  <2>3. QED
    BY <1>1, <2>2
<1>4. /\ On(in, k) \in Places
      /\ Fill(On(in, k), out) = Fill(in, out) + k
      /\ On(out, b - a) = in
  BY <1>2, <1>3, Moves, Further
<1>5. ASSUME NEW j \in 0 .. (b + k) - a - 1 PROVE buf2[On(out, j)] = a + j + 1
  <2>1. CASE j < b - a
    <3>1. j \in 0 .. b - a - 1 /\ j \in 0 .. BUF_LEN
      BY <1>1, <1>2, <2>1 DEF Places
    <3>2. PICK i \in Places : i = On(out, j) /\ i = IF out + j < BUF_LEN THEN out + j ELSE out + j - BUF_LEN
      <4>1. On(out, j) \in Places
        BY <1>2, <3>1, Moves
      <4>2. On(out, j) = IF out + j < BUF_LEN THEN out + j ELSE out + j - BUF_LEN
        BY <1>2, <3>1, Moves
      <4>3. QED
        BY <4>1, <4>2
    <3>3. Fill(i, in) = IF i >= in THEN i - in ELSE i - in + BUF_LEN
      BY <1>2, Moves
    <3>4. Fill(in, out) = IF in >= out THEN in - out ELSE in - out + BUF_LEN
      BY <1>2, Moves
    <3>5. Fill(i, in) >= k
      <4>1. PICK f \in Places : f = Fill(in, out)
        BY <1>2
      <4>2. PICK g \in Places : g = Fill(i, in)
        BY <1>2, <3>2, Moves
      <4>3. /\ f = IF in >= out THEN in - out ELSE in - out + BUF_LEN
            /\ g = IF i >= in THEN i - in ELSE i - in + BUF_LEN
            /\ i = IF out + j < BUF_LEN THEN out + j ELSE out + j - BUF_LEN
            /\ j \in Nat /\ j < f /\ k + f <= BUF_LEN - 1
        BY <1>2, <2>1, <3>1, <3>2, <3>3, <3>4, <4>1, <4>2
      <4>4. /\ in \in Nat /\ in < BUF_LEN /\ out \in Nat /\ out < BUF_LEN
            /\ i \in Nat /\ i < BUF_LEN /\ f \in Nat /\ g \in Nat
        BY <1>1, <1>2, <3>2, <4>1, <4>2 DEF Places
      <4>5. g >= k
        BY <1>1, <4>3, <4>4
      <4>6. QED
        BY <4>2, <4>5
    <3>6. QED
      BY <1>2, <3>1, <3>2, <3>5
  <2>2. CASE j >= b - a
    <3>1. PICK d \in 0 .. k - 1 : j = (b - a) + d
      <4>1. j - (b - a) \in 0 .. k - 1 /\ j = (b - a) + (j - (b - a))
        BY <1>2, <2>2
      <4>2. QED
        BY <4>1
    <3>2. b - a \in 0 .. BUF_LEN - 1 /\ d \in 0 .. BUF_LEN - 1 - (b - a)
      BY <1>1, <1>2 DEF Places
    <3>3. On(On(out, b - a), d) = On(out, (b - a) + d)
      BY <1>2, <3>2, Further
    <3>4. buf2[On(in, d)] = b + d + 1
      OBVIOUS
    <3>5. QED
      BY <1>2, <1>4, <3>1, <3>3, <3>4
  <2>3. QED
    BY <1>2, <2>1, <2>2
<1>6. (b + k) - a = Fill(On(in, k), out) /\ b + k \in Nat
  BY <1>2, <1>4 DEF Places
<1>7. QED
  BY <1>2, <1>4, <1>5, <1>6 DEF RingHolds

(* The characters a + 1 to b, in order.                                    *)
Numbered(a, b) == [i \in 1 .. b - a |-> a + i]

(* Numbered is a sequence of numbers.                                      *)
LEMMA NumberedType ==
  ASSUME NEW a \in Nat, NEW b \in Nat, a <= b
  PROVE  /\ Numbered(a, b) \in Seq(Nat) /\ Len(Numbered(a, b)) = b - a
         /\ \A i \in 1 .. b - a : Numbered(a, b)[i] = a + i
<1>1. b - a \in Nat /\ \A i \in 1 .. b - a : a + i \in Nat
  OBVIOUS
<1>2. Numbered(a, b) \in Seq(Nat)
  BY <1>1, IsASeq DEF Numbered
<1>3. Len(Numbered(a, b)) = b - a
  BY <1>1 DEF Numbered
<1>4. QED
  BY <1>2, <1>3 DEF Numbered

(* A sequence is Numbered if its elements are.                             *)
LEMMA NumberedBy ==
  ASSUME NEW a \in Nat, NEW b \in Nat, a <= b, NEW s \in Seq(Nat),
         Len(s) = b - a, \A i \in 1 .. b - a : s[i] = a + i
  PROVE  s = Numbered(a, b)
<1>1. Numbered(a, b) \in Seq(Nat) /\ Len(Numbered(a, b)) = Len(s)
      /\ \A i \in 1 .. Len(s) : s[i] = Numbered(a, b)[i]
  BY NumberedType
<1>2. QED
  BY <1>1, SeqEqual

(* Two runs that meet are one.                                             *)
LEMMA NumberedJoin ==
  ASSUME NEW a \in Nat, NEW m \in Nat, NEW b \in Nat, a <= m, m <= b
  PROVE  Numbered(a, m) \o Numbered(m, b) = Numbered(a, b)
<1> DEFINE s == Numbered(a, m)  t == Numbered(m, b)
<1>1. /\ s \in Seq(Nat) /\ Len(s) = m - a /\ t \in Seq(Nat) /\ Len(t) = b - m
      /\ \A i \in 1 .. m - a : s[i] = a + i
      /\ \A i \in 1 .. b - m : t[i] = m + i
  BY NumberedType
<1> HIDE DEF s, t
<1>2. /\ s \o t \in Seq(Nat) /\ Len(s \o t) = (m - a) + (b - m)
      /\ \A i \in 1 .. (m - a) + (b - m) :
           (s \o t)[i] = IF i <= m - a THEN s[i] ELSE t[i - (m - a)]
  <2>1. /\ s \o t \in Seq(Nat) /\ Len(s \o t) = Len(s) + Len(t)
        /\ \A i \in 1 .. Len(s) + Len(t) :
             (s \o t)[i] = IF i <= Len(s) THEN s[i] ELSE t[i - Len(s)]
    BY <1>1, ConcatProperties
  <2>2. QED
    BY <1>1, <2>1
<1>3. \A i \in 1 .. b - a : (s \o t)[i] = a + i
  <2> SUFFICES ASSUME NEW i \in 1 .. b - a PROVE (s \o t)[i] = a + i
    OBVIOUS
  <2>1. i \in 1 .. (m - a) + (b - m)
    OBVIOUS
  <2>2. CASE i <= m - a
    BY <1>1, <1>2, <2>1, <2>2
  <2>3. CASE ~(i <= m - a)
    <3>1. i - (m - a) \in 1 .. b - m /\ m + (i - (m - a)) = a + i
      BY <2>3
    <3>2. (s \o t)[i] = t[i - (m - a)]
      BY <1>2, <2>1, <2>3
    <3>3. QED
      BY <1>1, <3>1, <3>2
  <2>4. QED
    BY <2>2, <2>3
<1>4. Len(s \o t) = b - a /\ a <= b
  BY <1>2
<1>5. s \o t = Numbered(a, b)
  <2> DEFINE u == s \o t
  <2>1. u \in Seq(Nat) /\ Len(u) = b - a /\ \A i \in 1 .. b - a : u[i] = a + i
    BY <1>2, <1>3, <1>4
  <2> HIDE DEF u
  <2>2. u = Numbered(a, b)
    BY <1>4, <2>1, NumberedBy
  <2>3. QED
    BY <2>2 DEF u
<1>6. QED
  BY <1>5 DEF s, t

(* A run without its first k characters.                                   *)
LEMMA NumberedTake ==
  ASSUME NEW a \in Nat, NEW b \in Nat, a <= b, NEW k \in Nat, k <= b - a
  PROVE  SubSeq(Numbered(a, b), k + 1, b - a) = Numbered(a + k, b)
<1>1. /\ Numbered(a, b) \in Seq(Nat) /\ Len(Numbered(a, b)) = b - a
      /\ \A i \in 1 .. b - a : Numbered(a, b)[i] = a + i
  BY NumberedType
<1> DEFINE s == Numbered(a, b)  t == SubSeq(s, k + 1, b - a)
<1>2. /\ t \in Seq(Nat)
      /\ Len(t) = IF k + 1 <= b - a THEN (b - a) - (k + 1) + 1 ELSE 0
      /\ \A i \in 1 .. (b - a) - (k + 1) + 1 : t[i] = s[(k + 1) + i - 1]
  <2>1. k + 1 \in 1 .. Len(s) + 1 /\ b - a \in (k + 1) - 1 .. Len(s)
    BY <1>1
  <2>2. QED
    BY <1>1, <2>1, SubSeqProperties
<1> HIDE DEF s, t
<1>3. Len(t) = b - (a + k)
  BY <1>2
<1>4. \A i \in 1 .. b - (a + k) : t[i] = (a + k) + i
  <2> SUFFICES ASSUME NEW i \in 1 .. b - (a + k) PROVE t[i] = (a + k) + i
    OBVIOUS
  <2>1. /\ i \in 1 .. (b - a) - (k + 1) + 1
        /\ (k + 1) + i - 1 = k + i /\ k + i \in 1 .. b - a
    OBVIOUS
  <2>2. t[i] = s[k + i]
    BY <1>2, <2>1
  <2>3. s[k + i] = a + (k + i)
    BY <1>1, <2>1 DEF s
  <2>4. QED
    BY <2>2, <2>3
<1>5. a + k \in Nat /\ a + k <= b
  OBVIOUS
<1>6. t = Numbered(a + k, b)
  BY <1>2, <1>3, <1>4, <1>5, NumberedBy
<1>7. QED
  BY <1>6 DEF s, t

(* A FIFO that holds the characters after a up to b is that run.           *)
LEMMA FifoIsNumbered ==
  ASSUME NEW fifo, NEW a, NEW b
  PROVE  FifoHolds(fifo, a, b) <=>
           /\ a \in Nat /\ b \in Nat /\ a <= b /\ b - a <= Depth
           /\ fifo = Numbered(a, b)
<1>1. ASSUME FifoHolds(fifo, a, b)
      PROVE  a \in Nat /\ b \in Nat /\ a <= b /\ b - a <= Depth /\ fifo = Numbered(a, b)
  <2>1. fifo \in Seq(Nat) /\ a \in Nat /\ b \in Nat /\ Len(fifo) = b - a /\ Len(fifo) <= Depth
        /\ \A i \in 1 .. b - a : fifo[i] = a + i
    BY <1>1 DEF FifoHolds
  <2>2. Len(fifo) \in Nat
    BY <2>1, LenProperties
  <2>3. a <= b
    BY <2>1, <2>2
  <2>4. QED
    BY <2>1, <2>3, NumberedBy
<1>2. ASSUME a \in Nat, b \in Nat, a <= b, b - a <= Depth, fifo = Numbered(a, b)
      PROVE  FifoHolds(fifo, a, b)
  BY <1>2, NumberedType DEF FifoHolds
<1>3. QED
  BY <1>1, <1>2

(* So are the characters of a ring, of which there are fewer than places.  *)
LEMMA RingIsNumbered ==
  ASSUME JtagAssumption, NEW buf, NEW in, NEW out, NEW a, NEW b,
         RingHolds(buf, in, out, a, b)
  PROVE  /\ RingChars(buf, in, out) = Numbered(a, b)
         /\ a \in Nat /\ b \in Nat /\ a <= b /\ b - a <= BUF_LEN - 1
<1>1. BUF_LEN \in Nat /\ BUF_LEN > 1
  BY DEF JtagAssumption
<1>2. /\ in \in Places /\ out \in Places /\ a \in Nat /\ b \in Nat
      /\ b - a = Fill(in, out) /\ Fill(in, out) \in Places
      /\ \A j \in 0 .. b - a - 1 : buf[On(out, j)] = a + j + 1
  BY Moves DEF RingHolds
<1>3. a <= b /\ b - a <= BUF_LEN - 1 /\ out \in Nat
  BY <1>1, <1>2 DEF Places
<1>4. RingChars(buf, in, out) = [i \in 1 .. b - a |-> buf[(out + i - 1) % BUF_LEN]]
  BY <1>2 DEF RingChars, Fill
<1>5. ASSUME NEW i \in 1 .. b - a PROVE buf[(out + i - 1) % BUF_LEN] = a + i
  <2>1. i - 1 \in 0 .. b - a - 1 /\ out + i - 1 = out + (i - 1) /\ a + (i - 1) + 1 = a + i
    BY <1>2, <1>3
  <2>2. buf[On(out, i - 1)] = a + (i - 1) + 1
    BY <1>2, <2>1
  <2>3. QED
    BY <2>1, <2>2 DEF On
<1>6. [i \in 1 .. b - a |-> buf[(out + i - 1) % BUF_LEN]] = [i \in 1 .. b - a |-> a + i]
  BY <1>5
<1>7. QED
  BY <1>2, <1>3, <1>4, <1>6 DEF Numbered

(* What follows joins a FIFO that has room.                                *)
LEMMA FifoAppend ==
  ASSUME JtagAssumption, NEW fifo, NEW a, NEW b, FifoHolds(fifo, a, b),
         NEW k \in Nat, k <= Depth - Len(fifo)
  PROVE  FifoHolds(fifo \o Numbered(b, b + k), a, b + k)
<1>1. a \in Nat /\ b \in Nat /\ a <= b /\ fifo = Numbered(a, b) /\ Len(fifo) = b - a
      /\ Depth \in Nat
  BY FifoIsNumbered, NumberedType DEF JtagAssumption
<1>2. fifo \o Numbered(b, b + k) = Numbered(a, b + k)
  <2>1. b + k \in Nat /\ b <= b + k
    BY <1>1
  <2>2. QED
    BY <1>1, <2>1, NumberedJoin
<1>3. b + k \in Nat /\ a <= b + k /\ (b + k) - a <= Depth
  BY <1>1
<1>4. QED
  BY <1>1, <1>2, <1>3, FifoIsNumbered

(* One character joins it.                                                 *)
LEMMA FifoAppend1 ==
  ASSUME JtagAssumption, NEW fifo, NEW a, NEW b, FifoHolds(fifo, a, b), Len(fifo) < Depth
  PROVE  /\ FifoHolds(Append(fifo, b + 1), a, b + 1)
         /\ Numbered(b, b + 1) = <<b + 1>>
<1>1. b \in Nat /\ b <= b + 1 /\ fifo \in Seq(Nat) /\ Len(fifo) \in Nat /\ Depth \in Nat
      /\ b + 1 \in Nat
  BY LenProperties DEF FifoHolds, JtagAssumption
<1>2. <<b + 1>> = Numbered(b, b + 1)
  <2>1. <<b + 1>> \in Seq(Nat) /\ Len(<<b + 1>>) = (b + 1) - b
        /\ \A i \in 1 .. (b + 1) - b : <<b + 1>>[i] = b + i
    BY <1>1
  <2>2. QED
    BY <1>1, <2>1, NumberedBy
<1>3. Append(fifo, b + 1) = fifo \o Numbered(b, b + 1)
  BY <1>1, <1>2, AppendIsConcat
<1>4. 1 \in Nat /\ 1 <= Depth - Len(fifo)
  BY <1>1
<1>5. QED
  BY <1>2, <1>3, <1>4, FifoAppend

(* The first k leave it.                                                   *)
LEMMA FifoDrop ==
  ASSUME JtagAssumption, NEW fifo, NEW a, NEW b, FifoHolds(fifo, a, b), NEW k \in Nat, k <= Len(fifo)
  PROVE  FifoHolds(SubSeq(fifo, k + 1, Len(fifo)), a + k, b)
<1>1. a \in Nat /\ b \in Nat /\ a <= b /\ fifo = Numbered(a, b) /\ Len(fifo) = b - a
      /\ b - a <= Depth
  BY FifoIsNumbered, NumberedType
<1>2. SubSeq(fifo, k + 1, Len(fifo)) = Numbered(a + k, b)
  <2>1. k <= b - a
    BY <1>1
  <2>2. SubSeq(Numbered(a, b), k + 1, b - a) = Numbered(a + k, b)
    BY <1>1, <2>1, NumberedTake
  <2>3. QED
    BY <1>1, <2>2
<1>3. a + k \in Nat /\ a + k <= b
  BY <1>1
<1>4. b - (a + k) <= Depth
  BY <1>1, <1>3 DEF JtagAssumption
<1>5. QED
  BY <1>1, <1>2, <1>3, <1>4, FifoIsNumbered

-----------------------------------------------------------------------------
(* The types.                                                              *)
UartRecord == [rfifo : Seq(Nat), wfifo : Seq(Nat), pause_irq : BOOLEAN, ac : BOOLEAN,
               ien_AF : BOOLEAN, ien_AE : BOOLEAN]
DriverRecord == [timeout : Nat, host_inactive : Nat, rx_in : Places, rx_out : Places,
                 tx_in : Places, tx_out : Places,
                 rx_buf : [Places -> Nat], tx_buf : [Places -> Nat]]
EnableRecord == [RE : BOOLEAN, WE : BOOLEAN]
RoutineRecord == [at : {"off", "control", "receive", "transmit"},
                  ri : BOOLEAN, wi : BOOLEAN, space : Nat]
CallPlaces == {"idle", "put", "copyIn", "kick", "putWait", "get", "copyOut", "getWait", "open",
               "close", "putSmall", "getSmall"}
CallRecord == [at : CallPlaces, nonblock : BOOLEAN, left : Nat, moved : BOOLEAN,
               in : Nat, out : Nat, n : Nat, gone : BOOLEAN]
SeenRecord == [written : Nat, shown : Nat, sent : Nat, read : Nat]

ConsoleTypes ==
  /\ build \in [small : BOOLEAN, clock : BOOLEAN, rereads : BOOLEAN]
  /\ hw \in UartRecord /\ sp \in DriverRecord /\ isr \in RoutineRecord
  /\ call \in CallRecord /\ seen \in SeenRecord /\ irq_enable \in EnableRecord

(* What was written and not yet shown is in the FIFO and behind it in the  *)
(* ring; what the host sent and was not yet read, in the ring and behind   *)
(* it in the FIFO.                                                         *)
Transmitting ==
  \E m \in Nat :
    /\ FifoHolds(hw.wfifo, seen.shown, m)
    /\ RingHolds(sp.tx_buf, sp.tx_in, sp.tx_out, m, seen.written)

Receiving ==
  \E m \in Nat :
    /\ RingHolds(sp.rx_buf, sp.rx_in, sp.rx_out, seen.read, m)
    /\ FifoHolds(hw.rfifo, m, seen.sent)

(* What a call is about to copy is still free, or still there.             *)
InCall ==
  /\ call.at = "copyIn" =>
       /\ call.in = sp.tx_in /\ call.n > 0 /\ call.n <= call.left
       /\ call.in + call.n <= BUF_LEN
       /\ call.n + Fill(sp.tx_in, sp.tx_out) <= BUF_LEN - 1
  /\ call.at = "copyOut" =>
       /\ call.out = sp.rx_out /\ call.n > 0 /\ call.n <= call.left
       /\ call.out + call.n <= BUF_LEN
       /\ call.n <= Fill(sp.rx_in, sp.rx_out)

(* The routine still has the room the control register showed.             *)
InRoutine ==
  isr.at \in {"receive", "transmit"} => isr.space + Len(hw.wfifo) <= Depth

(* The small driver has no interrupts and no rings; the large one does not *)
(* run its calls.                                                          *)
SmallOnly ==
  IF build.small
  THEN /\ ~hw.ien_AF /\ ~hw.ien_AE /\ isr.at = "off"
       /\ sp.tx_in = sp.tx_out /\ sp.rx_in = sp.rx_out
       /\ call.at \in {"idle", "putSmall", "getSmall"}
  ELSE call.at \notin {"putSmall", "getSmall"}

(* The inductive invariant.                                                *)
ConsoleInv ==
  ConsoleTypes /\ Transmitting /\ Receiving /\ InCall /\ InRoutine /\ SmallOnly

(* Nothing moves at more than one end of a direction in one step.          *)
OnlyGrows(a, b, a2, b2) == (a2 = a /\ b2 >= b) \/ (b2 = b /\ a2 >= a)

SeenMoves ==
  /\ OnlyGrows(seen.written, seen.shown, seen'.written, seen'.shown)
  /\ OnlyGrows(seen.sent, seen.read, seen'.sent, seen'.read)

(* What leaves both rings, both FIFOs and what was seen alone.             *)
Quiet ==
  /\ hw'.wfifo = hw.wfifo /\ hw'.rfifo = hw.rfifo
  /\ sp'.rx_in = sp.rx_in /\ sp'.rx_out = sp.rx_out /\ sp'.rx_buf = sp.rx_buf
  /\ sp'.tx_in = sp.tx_in /\ sp'.tx_out = sp.tx_out /\ sp'.tx_buf = sp.tx_buf
  /\ seen' = seen

(* Such a step moves no character.                                         *)
LEMMA QuietStreams ==
  ASSUME ConsoleInv, Quiet PROVE Transmitting' /\ Receiving' /\ SeenMoves
<1>1. Transmitting'
  BY Zenon DEF ConsoleInv, Transmitting, Quiet
<1>2. Receiving'
  BY Zenon DEF ConsoleInv, Receiving, Quiet
<1>3. seen \in SeenRecord
  BY Zenon DEF ConsoleInv, ConsoleTypes
<1>4. SeenMoves
  BY <1>3 DEF SeenMoves, OnlyGrows, Quiet, SeenRecord
<1>5. QED
  BY <1>1, <1>2, <1>4

(* A write of the enables leaves the rest of the device alone.             *)
LEMMA WritesEnables ==
  ASSUME NEW h \in UartRecord, NEW e \in EnableRecord
  PROVE  /\ ControlWritten(h, e) \in UartRecord
         /\ ControlWritten(h, e).wfifo = h.wfifo /\ ControlWritten(h, e).rfifo = h.rfifo
<1>1. e.RE \in BOOLEAN /\ e.WE \in BOOLEAN
  BY DEF EnableRecord
<1>2. QED
  BY <1>1 DEF ControlWritten, UartRecord

(* The host pauses or leaves.                                              *)
LEMMA QuietHost ==
  ASSUME ConsoleInv, HostPauses \/ HostLeaves PROVE ConsoleInv' /\ SeenMoves
<1>1. hw \in UartRecord
  BY Zenon DEF ConsoleInv, ConsoleTypes
<1>2. /\ hw' \in UartRecord /\ hw'.wfifo = hw.wfifo /\ hw'.rfifo = hw.rfifo
      /\ hw'.ien_AF = hw.ien_AF /\ hw'.ien_AE = hw.ien_AE
  <2>1. CASE HostPauses
    <3>1. PICK p \in BOOLEAN : p = (hw.pause_irq \/ hw.rfifo # <<>>)
      OBVIOUS
    <3>2. hw' = [hw EXCEPT !.pause_irq = p, !.ac = TRUE]
      BY <2>1, <3>1, Zenon DEF HostPauses
    <3>3. QED
      BY <1>1, <3>2 DEF UartRecord
  <2>2. CASE HostLeaves
    BY <1>1, <2>2 DEF HostLeaves
  <2>3. QED
    BY <2>1, <2>2
<1>3. /\ build' = build /\ sp' = sp /\ isr' = isr /\ call' = call /\ seen' = seen
      /\ irq_enable' = irq_enable
  BY DEF HostPauses, HostLeaves
<1>4. Transmitting' /\ Receiving' /\ SeenMoves
  <2>1. Quiet
    BY <1>2, <1>3 DEF Quiet
  <2>2. QED
    BY <2>1, QuietStreams
<1>5. ConsoleTypes' /\ InCall' /\ InRoutine' /\ SmallOnly'
  BY <1>2, <1>3, Zenon DEF ConsoleInv, ConsoleTypes, InCall, InRoutine, SmallOnly
<1>6. QED
  BY <1>4, <1>5 DEF ConsoleInv

(* The host sends a character.                                             *)
LEMMA HostSendsInv ==
  ASSUME JtagAssumption, ConsoleInv, HostSends PROVE ConsoleInv' /\ SeenMoves
<1>0. /\ hw \in UartRecord /\ seen \in SeenRecord
  BY Zenon DEF ConsoleInv, ConsoleTypes
<1>1. /\ hw'.rfifo = Append(hw.rfifo, seen.sent + 1) /\ hw'.wfifo = hw.wfifo
      /\ hw'.ien_AF = hw.ien_AF /\ hw'.ien_AE = hw.ien_AE
      /\ Len(hw.rfifo) < Depth
  BY <1>0 DEF UartRecord, HostSends
<1>2. /\ seen'.sent = seen.sent + 1 /\ seen'.read = seen.read
      /\ seen'.written = seen.written /\ seen'.shown = seen.shown
      /\ seen.sent \in Nat /\ seen.read \in Nat /\ seen.written \in Nat /\ seen.shown \in Nat
      /\ seen' \in SeenRecord
  <2>1. seen' = [seen EXCEPT !.sent = seen.sent + 1]
    BY DEF HostSends
  <2>2. QED
    BY <1>0, <2>1 DEF SeenRecord
<1>3. build' = build /\ sp' = sp /\ isr' = isr /\ call' = call /\ irq_enable' = irq_enable
  BY DEF HostSends
<1>4. hw' \in UartRecord
  <2>1. hw.rfifo \in Seq(Nat) /\ seen.sent + 1 \in Nat
    BY <1>0, <1>2 DEF UartRecord
  <2>2. PICK q \in Seq(Nat) : q = Append(hw.rfifo, seen.sent + 1)
    BY <2>1, AppendProperties
  <2>3. hw' = [hw EXCEPT !.rfifo = q, !.ac = TRUE]
    BY <2>2 DEF HostSends
  <2>4. QED
    BY <1>0, <2>3 DEF UartRecord
<1>5. Receiving'
  <2>1. PICK m \in Nat : RingHolds(sp.rx_buf, sp.rx_in, sp.rx_out, seen.read, m)
                         /\ FifoHolds(hw.rfifo, m, seen.sent)
    BY Zenon DEF ConsoleInv, Receiving
  <2>2. FifoHolds(Append(hw.rfifo, seen.sent + 1), m, seen.sent + 1)
    BY <1>1, <1>2, <2>1, FifoAppend1
  <2>3. QED
    BY <1>1, <1>2, <1>3, <2>1, <2>2, Zenon DEF Receiving
<1>6. ConsoleTypes' /\ Transmitting' /\ InCall' /\ InRoutine' /\ SmallOnly'
  BY <1>1, <1>2, <1>3, <1>4, Zenon
     DEF ConsoleInv, ConsoleTypes, Transmitting, InCall, InRoutine, SmallOnly
<1>7. SeenMoves
  BY <1>2 DEF SeenMoves, OnlyGrows
<1>8. QED
  BY <1>5, <1>6, <1>7, Zenon DEF ConsoleInv

(* The first leaves it.                                                    *)
LEMMA FifoTail ==
  ASSUME JtagAssumption, NEW fifo, NEW a, NEW b, FifoHolds(fifo, a, b), fifo # <<>>
  PROVE  /\ FifoHolds(Tail(fifo), a + 1, b) /\ Head(fifo) = a + 1
         /\ Len(Tail(fifo)) = Len(fifo) - 1 /\ Len(fifo) > 0
<1>1. fifo \in Seq(Nat) /\ a \in Nat /\ b \in Nat /\ Len(fifo) = b - a /\ Len(fifo) \in Nat
      /\ \A i \in 1 .. b - a : fifo[i] = a + i
  BY LenProperties DEF FifoHolds
<1>2. Len(fifo) > 0
  BY <1>1, EmptySeq
<1>3. Head(fifo) = a + 1
  <2>1. Head(fifo) = fifo[1]
    BY <1>1, HeadTailProperties
  <2>2. 1 \in 1 .. b - a
    BY <1>1, <1>2
  <2>3. QED
    BY <1>1, <2>1, <2>2
<1>4. Tail(fifo) = SubSeq(fifo, 1 + 1, Len(fifo)) /\ Len(Tail(fifo)) = Len(fifo) - 1
  <2>1. 1 + 1 = 2
    OBVIOUS
  <2>2. Tail(fifo) = SubSeq(fifo, 2, Len(fifo))
    BY <1>1, TailIsSubSeq
  <2>3. QED
    BY <1>1, <1>2, <2>1, <2>2, HeadTailProperties
<1>5. FifoHolds(SubSeq(fifo, 1 + 1, Len(fifo)), a + 1, b)
  <2>1. 1 \in Nat /\ 1 <= Len(fifo)
    BY <1>1, <1>2
  <2>2. QED
    BY <2>1, FifoDrop
<1>6. QED
  BY <1>2, <1>3, <1>4, <1>5

(* The host takes a character.                                             *)
LEMMA HostTakesInv ==
  ASSUME JtagAssumption, ConsoleInv, HostTakes PROVE ConsoleInv' /\ SeenMoves
<1>0. /\ hw \in UartRecord /\ seen \in SeenRecord /\ isr \in RoutineRecord
  BY Zenon DEF ConsoleInv, ConsoleTypes
<1>1. /\ hw'.wfifo = Tail(hw.wfifo) /\ hw'.rfifo = hw.rfifo
      /\ hw'.ien_AF = hw.ien_AF /\ hw'.ien_AE = hw.ien_AE
      /\ hw.wfifo # <<>>
  BY <1>0 DEF UartRecord, HostTakes
<1>2. PICK m \in Nat : FifoHolds(hw.wfifo, seen.shown, m)
                       /\ RingHolds(sp.tx_buf, sp.tx_in, sp.tx_out, m, seen.written)
  BY Zenon DEF ConsoleInv, Transmitting
<1>3. /\ FifoHolds(Tail(hw.wfifo), seen.shown + 1, m) /\ Head(hw.wfifo) = seen.shown + 1
      /\ Len(Tail(hw.wfifo)) = Len(hw.wfifo) - 1 /\ Len(hw.wfifo) > 0
  BY <1>1, <1>2, FifoTail
<1>4. /\ seen'.sent = seen.sent /\ seen'.read = seen.read
      /\ seen'.written = seen.written /\ seen'.shown = seen.shown + 1
      /\ seen.sent \in Nat /\ seen.read \in Nat /\ seen.written \in Nat /\ seen.shown \in Nat
      /\ seen' \in SeenRecord
  <2>1. seen' = [seen EXCEPT !.shown = seen.shown + 1]
    BY <1>3 DEF HostTakes
  <2>2. QED
    BY <1>0, <2>1 DEF SeenRecord
<1>5. build' = build /\ sp' = sp /\ isr' = isr /\ call' = call /\ irq_enable' = irq_enable
  BY DEF HostTakes
<1>6. hw' \in UartRecord
  <2>1. PICK q \in Seq(Nat) : q = Tail(hw.wfifo)
    BY <1>3 DEF FifoHolds
  <2>2. hw' = [hw EXCEPT !.wfifo = q]
    BY <2>1 DEF HostTakes
  <2>3. QED
    BY <1>0, <2>2 DEF UartRecord
<1>7. Transmitting'
  BY <1>1, <1>2, <1>3, <1>4, <1>5, Zenon DEF Transmitting
<1>8. InRoutine'
  <2>1. hw.wfifo \in Seq(Nat) /\ Len(hw.wfifo) \in Nat /\ isr.space \in Nat /\ Depth \in Nat
    BY <1>0, LenProperties DEF UartRecord, RoutineRecord, JtagAssumption
  <2>2. isr.space + Len(hw.wfifo) <= Depth => isr.space + Len(hw'.wfifo) <= Depth
    BY <1>1, <1>3, <2>1
  <2>3. QED
    BY <1>5, <2>2, Zenon DEF ConsoleInv, InRoutine
<1>9. ConsoleTypes' /\ Receiving' /\ InCall' /\ SmallOnly'
  BY <1>1, <1>4, <1>5, <1>6, Zenon
     DEF ConsoleInv, ConsoleTypes, Receiving, InCall, SmallOnly
<1>10. SeenMoves
  BY <1>4 DEF SeenMoves, OnlyGrows
<1>11. QED
  BY <1>7, <1>8, <1>9, <1>10, Zenon DEF ConsoleInv

(* A smaller of two numbers is a number, and at most either.               *)
LEMMA SmallerIs ==
  ASSUME NEW a \in Nat, NEW b \in Nat
  PROVE  /\ Smaller(a, b) \in Nat /\ Smaller(a, b) <= a /\ Smaller(a, b) <= b
         /\ Smaller(a, b) = a \/ Smaller(a, b) = b
BY DEF Smaller

(* The interrupt routine and the alarm never start in the small driver.    *)
LEMMA SmallRests ==
  ASSUME ConsoleInv
  PROVE  /\ call.at \notin {"idle", "putSmall", "getSmall"} => build.small = FALSE
         /\ isr.at # "off" => build.small = FALSE
         /\ hw.ien_AF \/ hw.ien_AE => build.small = FALSE
<1>1. build.small = TRUE \/ build.small = FALSE
  BY DEF ConsoleInv, ConsoleTypes
<1>2. CASE build.small = TRUE
  <2>1. /\ ~hw.ien_AF /\ ~hw.ien_AE /\ isr.at = "off"
        /\ call.at \in {"idle", "putSmall", "getSmall"}
    BY <1>2, Zenon DEF ConsoleInv, SmallOnly
  <2>2. QED
    BY <2>1, Zenon
<1>3. QED
  BY <1>1, <1>2

(* The UART interrupts.                                                    *)
LEMMA InterruptInv ==
  ASSUME JtagAssumption, ConsoleInv, Interrupt PROVE ConsoleInv' /\ SeenMoves
<1>1. isr \in RoutineRecord
  BY Zenon DEF ConsoleInv, ConsoleTypes
<1>2. isr' \in RoutineRecord /\ isr'.at = "control"
  <2>1. isr' = [isr EXCEPT !.at = "control"]
    BY DEF Interrupt
  <2>2. QED
    BY <1>1, <2>1 DEF RoutineRecord
<1>3. /\ build' = build /\ hw' = hw /\ sp' = sp /\ call' = call /\ seen' = seen
      /\ irq_enable' = irq_enable
  BY DEF Interrupt
<1>4. Transmitting' /\ Receiving' /\ SeenMoves
  <2>1. Quiet
    BY <1>3 DEF Quiet
  <2>2. QED
    BY <2>1, QuietStreams
<1>5. SmallOnly'
  <2>1. hw.ien_AF \/ hw.ien_AE
    BY Zenon DEF Interrupt, RI, WI
  <2>2. build.small = FALSE
    BY <2>1, SmallRests, Zenon
  <2>3. QED
    BY <1>3, <2>2, Zenon DEF ConsoleInv, SmallOnly
<1>6. InRoutine'
  BY <1>2 DEF InRoutine
<1>7. ConsoleTypes' /\ InCall'
  BY <1>2, <1>3, Zenon DEF ConsoleInv, ConsoleTypes, InCall
<1>8. QED
  BY <1>4, <1>5, <1>6, <1>7, Zenon DEF ConsoleInv

(* The control register is read: space is room that only grows until the   *)
(* routine writes, for nobody else writes while it runs.                   *)
LEMMA IsrControlInv ==
  ASSUME JtagAssumption, ConsoleInv, IsrControl PROVE ConsoleInv' /\ SeenMoves
<1>1. hw \in UartRecord /\ hw.wfifo \in Seq(Nat) /\ Len(hw.wfifo) \in Nat /\ Depth \in Nat
  BY LenProperties DEF ConsoleInv, ConsoleTypes, UartRecord, JtagAssumption
<1>2. WSPACE \in Nat /\ WSPACE + Len(hw.wfifo) <= Depth
  <2>1. Len(hw.wfifo) <= Depth
    BY DEF ConsoleInv, Transmitting, FifoHolds
  <2>2. QED
    BY <1>1, <2>1 DEF WSPACE
<1>3. PICK r, w \in BOOLEAN : r = RI /\ w = WI
  BY Zenon DEF RI, WI
<1>4. isr' = [at |-> "receive", ri |-> r, wi |-> w, space |-> WSPACE] \/ isr' = Away
  BY <1>3, Zenon DEF IsrControl
<1>5. isr' \in RoutineRecord /\ ((isr'.at = "receive" /\ isr'.space = WSPACE) \/ isr'.at = "off")
  <2>1. CASE isr' = Away
    BY <2>1 DEF RoutineRecord, Away
  <2>2. CASE isr' = [at |-> "receive", ri |-> r, wi |-> w, space |-> WSPACE]
    BY <1>2, <1>3, <2>2 DEF RoutineRecord
  <2>3. QED
    BY <1>4, <2>1, <2>2
<1>6. /\ build' = build /\ hw' = hw /\ sp' = sp /\ call' = call /\ seen' = seen
      /\ irq_enable' = irq_enable
  BY DEF IsrControl
<1>7. Transmitting' /\ Receiving' /\ SeenMoves
  <2>1. Quiet
    BY <1>6 DEF Quiet
  <2>2. QED
    BY <2>1, QuietStreams
<1>8. SmallOnly'
  <2>1. isr.at # "off"
    BY DEF IsrControl
  <2>2. build.small = FALSE
    BY <2>1, SmallRests, Zenon
  <2>3. QED
    BY <1>6, <2>2, Zenon DEF ConsoleInv, SmallOnly
<1>9. InRoutine'
  BY <1>2, <1>5, <1>6 DEF InRoutine
<1>10. ConsoleTypes' /\ InCall'
  BY <1>5, <1>6, Zenon DEF ConsoleInv, ConsoleTypes, InCall
<1>11. QED
  BY <1>7, <1>8, <1>9, <1>10, Zenon DEF ConsoleInv

(* The alarm.                                                              *)
LEMMA TimeoutInv ==
  ASSUME JtagAssumption, ConsoleInv, Timeout PROVE ConsoleInv' /\ SeenMoves
<1>1. hw \in UartRecord /\ sp \in DriverRecord /\ irq_enable \in EnableRecord
  BY Zenon DEF ConsoleInv, ConsoleTypes
<1>2. /\ hw' \in UartRecord /\ hw'.wfifo = hw.wfifo /\ hw'.rfifo = hw.rfifo
      /\ irq_enable' = irq_enable
  <2>1. hw' = [ControlWritten(hw, irq_enable) EXCEPT !.ac = FALSE] \/ hw' = hw
    BY Zenon DEF Timeout
  <2>2. ControlWritten(hw, irq_enable) \in UartRecord
        /\ ControlWritten(hw, irq_enable).wfifo = hw.wfifo
        /\ ControlWritten(hw, irq_enable).rfifo = hw.rfifo
    BY <1>1, WritesEnables
  <2>3. QED
    BY <1>1, <2>1, <2>2 DEF UartRecord, Timeout
<1>3. /\ sp' \in DriverRecord
      /\ sp'.rx_in = sp.rx_in /\ sp'.rx_out = sp.rx_out /\ sp'.rx_buf = sp.rx_buf
      /\ sp'.tx_in = sp.tx_in /\ sp'.tx_out = sp.tx_out /\ sp'.tx_buf = sp.tx_buf
  <2>1. PICK i \in Nat : sp' = [sp EXCEPT !.host_inactive = i]
    <3>1. sp' = [sp EXCEPT !.host_inactive = 0]
          \/ sp' = [sp EXCEPT !.host_inactive = sp.host_inactive + 1]
      BY DEF Timeout
    <3>2. sp.host_inactive + 1 \in Nat
      BY <1>1 DEF DriverRecord
    <3>3. QED
      BY <3>1, <3>2
  <2>2. QED
    BY <1>1, <2>1 DEF DriverRecord
<1>4. build' = build /\ isr' = isr /\ call' = call /\ seen' = seen
  BY DEF Timeout
<1>5. Transmitting' /\ Receiving' /\ SeenMoves
  <2>1. Quiet
    BY <1>2, <1>3, <1>4 DEF Quiet
  <2>2. QED
    BY <2>1, QuietStreams
<1>6. ConsoleTypes' /\ InCall' /\ InRoutine'
  BY <1>1, <1>2, <1>3, <1>4, Zenon DEF ConsoleInv, ConsoleTypes, InCall, InRoutine
<1>7. SmallOnly'
  <2>1. ~build.small
    BY Zenon DEF Timeout
  <2>2. QED
    BY <1>4, <2>1, Zenon DEF ConsoleInv, SmallOnly
<1>8. QED
  BY <1>5, <1>6, <1>7, Zenon DEF ConsoleInv

(* ioctl.                                                                  *)
LEMMA SetTimeoutInv ==
  ASSUME JtagAssumption, ConsoleInv, SetTimeout PROVE ConsoleInv' /\ SeenMoves
<1>1. sp \in DriverRecord /\ INT_MAX \in Nat /\ INT_MAX > 3
  BY DEF ConsoleInv, ConsoleTypes, JtagAssumption
<1>2. /\ sp' \in DriverRecord
      /\ sp'.rx_in = sp.rx_in /\ sp'.rx_out = sp.rx_out /\ sp'.rx_buf = sp.rx_buf
      /\ sp'.tx_in = sp.tx_in /\ sp'.tx_out = sp.tx_out /\ sp'.tx_buf = sp.tx_buf
  <2>1. PICK i \in Nat : sp' = [sp EXCEPT !.timeout = i]
    <3>1. PICK t \in 0 .. INT_MAX :
            sp' = [sp EXCEPT !.timeout = IF t >= 2 /\ t < INT_MAX THEN t ELSE INT_MAX - 1]
      BY DEF SetTimeout
    <3>2. (IF t >= 2 /\ t < INT_MAX THEN t ELSE INT_MAX - 1) \in Nat
      BY <1>1
    <3>3. QED
      BY <3>1, <3>2
  <2>2. QED
    BY <1>1, <2>1 DEF DriverRecord
<1>3. /\ build' = build /\ hw' = hw /\ isr' = isr /\ call' = call /\ seen' = seen
      /\ irq_enable' = irq_enable
  BY DEF SetTimeout
<1>4. Transmitting' /\ Receiving' /\ SeenMoves
  <2>1. Quiet
    BY <1>2, <1>3 DEF Quiet
  <2>2. QED
    BY <2>1, QuietStreams
<1>5. ConsoleTypes' /\ InCall' /\ InRoutine' /\ SmallOnly'
  BY <1>2, <1>3, Zenon DEF ConsoleInv, ConsoleTypes, InCall, InRoutine, SmallOnly
<1>6. QED
  BY <1>4, <1>5, Zenon DEF ConsoleInv

(* A step of a call of the large driver that copies nothing.               *)
LEMMA QuietCall ==
  ASSUME ConsoleInv, Running, build.small = FALSE,
         hw' \in UartRecord, hw'.wfifo = hw.wfifo, hw'.rfifo = hw.rfifo,
         irq_enable' \in EnableRecord,
         call' \in CallRecord,
         call'.at \notin {"copyIn", "copyOut", "putSmall", "getSmall"},
         build' = build, sp' = sp, isr' = isr, seen' = seen
  PROVE  ConsoleInv' /\ SeenMoves
<1>1. Transmitting' /\ Receiving' /\ SeenMoves
  <2>1. Quiet
    BY DEF Quiet
  <2>2. QED
    BY <2>1, QuietStreams
<1>2. ConsoleTypes' /\ InRoutine'
  BY Zenon DEF ConsoleInv, ConsoleTypes, InRoutine
<1>3. InCall'
  BY DEF InCall
<1>4. SmallOnly'
  BY Zenon DEF SmallOnly
<1>5. QED
  BY <1>1, <1>2, <1>3, <1>4, Zenon DEF ConsoleInv

(* No call.                                                                *)
LEMMA IdleIsACall == Idle \in CallRecord /\ Idle.at = "idle"
BY DEF Idle, CallRecord, CallPlaces

(* A call begins.                                                          *)
LEMMA BeginInv ==
  ASSUME JtagAssumption, ConsoleInv, Begin PROVE ConsoleInv' /\ SeenMoves
<1>1. PICK pc \in {"put", "get", "putSmall", "getSmall"}, count \in Nat, nonblock \in BOOLEAN :
        /\ call' = [Idle EXCEPT !.at = pc, !.left = count, !.nonblock = nonblock]
        /\ pc \in {"putSmall", "getSmall"} <=> build.small
  <2>1. PICK op \in {"write", "read"}, count \in Counts, nonblock \in BOOLEAN :
          call' = [Idle EXCEPT !.at = IF build.small THEN (IF op = "write" THEN "putSmall" ELSE "getSmall")
                                      ELSE (IF op = "write" THEN "put" ELSE "get"),
                               !.left = count, !.nonblock = nonblock]
    BY DEF Begin
  <2>2. count \in Nat
    BY DEF JtagAssumption
  <2>3. CASE build.small
    <3>1. PICK pc \in {"putSmall", "getSmall"} : pc = IF op = "write" THEN "putSmall" ELSE "getSmall"
      OBVIOUS
    <3>2. call' = [Idle EXCEPT !.at = pc, !.left = count, !.nonblock = nonblock]
      BY <2>1, <2>3, <3>1
    <3>3. QED
      BY <2>2, <2>3, <3>2
  <2>4. CASE ~build.small
    <3>1. PICK pc \in {"put", "get"} : pc = IF op = "write" THEN "put" ELSE "get"
      OBVIOUS
    <3>2. call' = [Idle EXCEPT !.at = pc, !.left = count, !.nonblock = nonblock]
      BY <2>1, <2>4, <3>1
    <3>3. QED
      BY <2>2, <2>4, <3>2
  <2>5. QED
    BY <2>3, <2>4
<1>2. call' \in CallRecord /\ call'.at = pc
  BY <1>1, IdleIsACall DEF CallRecord, CallPlaces
<1>3. /\ build' = build /\ hw' = hw /\ sp' = sp /\ isr' = isr /\ seen' = seen
      /\ irq_enable' = irq_enable
  BY DEF Begin
<1>4. Transmitting' /\ Receiving' /\ SeenMoves
  <2>1. Quiet
    BY <1>3 DEF Quiet
  <2>2. QED
    BY <2>1, QuietStreams
<1>5. ConsoleTypes' /\ InRoutine'
  BY <1>2, <1>3, Zenon DEF ConsoleInv, ConsoleTypes, InRoutine
<1>6. InCall'
  BY <1>2 DEF InCall
<1>7. SmallOnly'
  <2>1. CASE build.small
    <3>1. call'.at \in {"idle", "putSmall", "getSmall"}
      BY <1>1, <1>2, <2>1
    <3>2. QED
      BY <1>3, <2>1, <3>1, Zenon DEF ConsoleInv, SmallOnly
  <2>2. CASE ~build.small
    <3>1. call'.at \notin {"putSmall", "getSmall"}
      BY <1>1, <1>2, <2>2
    <3>2. QED
      BY <1>3, <2>2, <3>1, Zenon DEF SmallOnly
  <2>3. QED
    BY <2>1, <2>2
<1>8. QED
  BY <1>4, <1>5, <1>6, <1>7, Zenon DEF ConsoleInv

(* The steps of write, read and close between their copies.                *)
LEMMA KickInv ==
  ASSUME JtagAssumption, ConsoleInv, WriteKick \/ ReadReenable PROVE ConsoleInv' /\ SeenMoves
<1>1. hw \in UartRecord /\ call \in CallRecord /\ irq_enable \in EnableRecord
  BY Zenon DEF ConsoleInv, ConsoleTypes
<1>2. Running /\ build.small = FALSE
  <2>1. Running /\ call.at \in {"kick", "open"}
    BY DEF WriteKick, ReadReenable, At
  <2>2. QED
    BY <2>1, SmallRests
<1>3. /\ hw' \in UartRecord /\ hw'.wfifo = hw.wfifo /\ hw'.rfifo = hw.rfifo
      /\ irq_enable' \in EnableRecord
  <2>1. irq_enable' = [irq_enable EXCEPT !.WE = TRUE] \/ irq_enable' = [irq_enable EXCEPT !.RE = TRUE]
    BY Zenon DEF WriteKick, ReadReenable
  <2>2. irq_enable' \in EnableRecord
    BY <1>1, <2>1 DEF EnableRecord
  <2>3. hw' = ControlWritten(hw, irq_enable')
    BY Zenon DEF WriteKick, ReadReenable
  <2>4. QED
    BY <1>1, <2>2, <2>3, WritesEnables
<1>4. call' \in CallRecord /\ call'.at \in {"idle", "putWait"}
  <2>1. PICK g \in BOOLEAN : g = (~build.rereads /\ Gone)
    BY DEF Gone
  <2>2. call' = Idle \/ call' = [call EXCEPT !.at = "putWait", !.gone = g]
    BY <2>1, Zenon DEF WriteKick, ReadReenable, Return
  <2>3. QED
    BY <1>1, <2>2, IdleIsACall DEF CallRecord, CallPlaces
<1>5. build' = build /\ sp' = sp /\ isr' = isr /\ seen' = seen
  BY DEF WriteKick, ReadReenable
<1>6. QED
  BY <1>2, <1>3, <1>4, <1>5, QuietCall

(* The steps that wait, and close.                                         *)
LEMMA WaitInv ==
  ASSUME JtagAssumption, ConsoleInv, WriteWait \/ ReadWait \/ CloseBegin \/ Close
  PROVE  ConsoleInv' /\ SeenMoves
<1>1. /\ hw \in UartRecord /\ call \in CallRecord /\ build.small \in BOOLEAN
      /\ irq_enable \in EnableRecord
  BY DEF ConsoleInv, ConsoleTypes
<1>2. Running /\ build.small = FALSE
  <2>1. CASE CloseBegin
    <3>1. Running /\ ~build.small
      BY <2>1, Zenon DEF CloseBegin, At
    <3>2. QED
      BY <1>1, <3>1, Zenon
  <2>2. CASE WriteWait \/ ReadWait \/ Close
    <3>1. Running /\ call.at \in {"putWait", "getWait", "close"}
      BY <2>2 DEF WriteWait, ReadWait, Close, At
    <3>2. QED
      BY <3>1, SmallRests
  <2>3. QED
    BY <2>1, <2>2
<1>3. call' \in CallRecord /\ call'.at \in {"idle", "put", "get", "close"}
  <2>1. CASE CloseBegin
    <3>1. PICK g, b \in BOOLEAN : call' = [Idle EXCEPT !.at = "close", !.nonblock = b, !.gone = g]
      <4>1. PICK g \in BOOLEAN : g = (~build.rereads /\ Gone)
        BY Zenon DEF Gone
      <4>2. QED
        BY <2>1, <4>1, Zenon DEF CloseBegin
    <3>2. QED
      BY <3>1, IdleIsACall DEF CallRecord, CallPlaces
  <2>2. CASE WriteWait \/ ReadWait \/ Close
    <3>1. call' = Idle \/ call' = [call EXCEPT !.at = "put"] \/ call' = [call EXCEPT !.at = "get"]
      BY <2>2, Zenon DEF WriteWait, ReadWait, Close, Return, Goto
    <3>2. QED
      BY <1>1, <3>1, IdleIsACall DEF CallRecord, CallPlaces
  <2>3. QED
    BY <2>1, <2>2
<1>4. /\ build' = build /\ hw' = hw /\ sp' = sp /\ isr' = isr /\ seen' = seen
      /\ irq_enable' = irq_enable
  BY DEF WriteWait, ReadWait, CloseBegin, Close
<1>5. QED
  BY <1>1, <1>2, <1>3, <1>4, QuietCall

(* The free and the filled run in one piece.                               *)
LEMMA Runs ==
  ASSUME JtagAssumption, NEW in \in Places, NEW out \in Places
  PROVE  /\ FreeRun(in, out) \in Nat /\ in + FreeRun(in, out) <= BUF_LEN
         /\ FreeRun(in, out) + Fill(in, out) <= BUF_LEN - 1
         /\ Run(in, out) \in Nat /\ out + Run(in, out) <= BUF_LEN
         /\ Run(in, out) <= Fill(in, out)
<1>1. BUF_LEN \in Nat /\ BUF_LEN > 1
  BY DEF JtagAssumption
<1>2. PICK f \in Places : f = Fill(in, out) /\ f = IF in >= out THEN in - out ELSE in - out + BUF_LEN
  BY Moves
<1>3. in \in Nat /\ in < BUF_LEN /\ out \in Nat /\ out < BUF_LEN
  BY <1>1 DEF Places
<1>4. PICK r : r = FreeRun(in, out) /\ r = IF in < out THEN out - 1 - in
                                           ELSE IF out > 0 THEN BUF_LEN - in ELSE BUF_LEN - 1 - in
  BY DEF FreeRun
<1>5. r \in Nat /\ in + r <= BUF_LEN /\ r + f <= BUF_LEN - 1
  BY <1>1, <1>2, <1>3, <1>4
<1>6. PICK s : s = Run(in, out) /\ s = IF in >= out THEN in - out ELSE BUF_LEN - out
  BY DEF Run
<1>7. s \in Nat /\ out + s <= BUF_LEN /\ s <= f
  BY <1>1, <1>2, <1>3, <1>6
<1>8. QED
  BY <1>2, <1>4, <1>5, <1>6, <1>7

(* The pointers are read: what there is to copy lies in one piece and is   *)
(* there.                                                                  *)
LEMMA SampleInv ==
  ASSUME JtagAssumption, ConsoleInv, WriteSample \/ ReadSample PROVE ConsoleInv' /\ SeenMoves
<1>1. /\ hw \in UartRecord /\ sp \in DriverRecord /\ call \in CallRecord
      /\ BUF_LEN \in Nat
  BY DEF ConsoleInv, ConsoleTypes, JtagAssumption
<1>2. Running /\ build.small = FALSE
  <2>1. Running /\ call.at \in {"put", "get"}
    BY DEF WriteSample, ReadSample, At
  <2>2. QED
    BY <2>1, SmallRests
<1>3. /\ build' = build /\ hw' = hw /\ sp' = sp /\ isr' = isr /\ seen' = seen
      /\ irq_enable' = irq_enable
  BY DEF WriteSample, ReadSample
<1>4. /\ sp.tx_in \in Places /\ sp.tx_out \in Places /\ sp.rx_in \in Places /\ sp.rx_out \in Places
      /\ call.left \in Nat
  BY <1>1 DEF DriverRecord, CallRecord
<1>5. Places \subseteq Nat
  BY <1>1 DEF Places
<1>6. /\ call' \in CallRecord /\ InCall' /\ call'.at \notin {"putSmall", "getSmall"}
  <2>1. CASE WriteSample
    <3>1. PICK n \in Nat : /\ n = Smaller(FreeRun(sp.tx_in, sp.tx_out), call.left)
                           /\ n <= call.left /\ sp.tx_in + n <= BUF_LEN
                           /\ n + Fill(sp.tx_in, sp.tx_out) <= BUF_LEN - 1
      <4>1. PICK r \in Nat : /\ r = FreeRun(sp.tx_in, sp.tx_out) /\ sp.tx_in + r <= BUF_LEN
                             /\ r + Fill(sp.tx_in, sp.tx_out) <= BUF_LEN - 1
        BY <1>4, Runs
      <4>2. PICK f \in Nat : f = Fill(sp.tx_in, sp.tx_out)
        BY <1>4, <1>5, Moves
      <4>3. PICK n \in Nat : n = Smaller(r, call.left) /\ n <= r /\ n <= call.left
        BY <1>4, SmallerIs
      <4>4. sp.tx_in \in Nat
        BY <1>4, <1>5
      <4>5. sp.tx_in + n <= BUF_LEN /\ n + f <= BUF_LEN - 1
        BY <1>1, <4>1, <4>2, <4>3, <4>4
      <4>6. QED
        BY <4>1, <4>2, <4>3, <4>5
    <3>2. CASE n = 0
      <4>1. call' = [call EXCEPT !.at = "kick", !.out = sp.tx_out]
        BY <2>1, <3>1, <3>2 DEF WriteSample
      <4>2. QED
        BY <1>1, <1>4, <1>5, <4>1 DEF CallRecord, CallPlaces, InCall
    <3>3. CASE n # 0
      <4>1. call' = [call EXCEPT !.at = "copyIn", !.in = sp.tx_in, !.n = n]
        BY <2>1, <3>1, <3>3 DEF WriteSample
      <4>2. /\ call' \in CallRecord /\ call'.at = "copyIn" /\ call'.in = sp.tx_in
            /\ call'.n = n /\ call'.left = call.left
        BY <1>1, <1>4, <1>5, <4>1 DEF CallRecord, CallPlaces
      <4>3. QED
        BY <1>3, <3>1, <3>3, <4>2 DEF InCall
    <3>4. QED
      BY <3>2, <3>3
  <2>2. CASE ReadSample
    <3>1. PICK n \in Nat : /\ n = Smaller(Run(sp.rx_in, sp.rx_out), call.left)
                           /\ n <= call.left /\ sp.rx_out + n <= BUF_LEN
                           /\ n <= Fill(sp.rx_in, sp.rx_out)
      <4>1. PICK r \in Nat : /\ r = Run(sp.rx_in, sp.rx_out) /\ sp.rx_out + r <= BUF_LEN
                             /\ r <= Fill(sp.rx_in, sp.rx_out)
        BY <1>4, Runs
      <4>2. PICK f \in Nat : f = Fill(sp.rx_in, sp.rx_out)
        BY <1>4, <1>5, Moves
      <4>3. PICK n \in Nat : n = Smaller(r, call.left) /\ n <= r /\ n <= call.left
        BY <1>4, SmallerIs
      <4>4. sp.rx_out \in Nat
        BY <1>4, <1>5
      <4>5. sp.rx_out + n <= BUF_LEN /\ n <= f
        BY <1>1, <4>1, <4>2, <4>3, <4>4
      <4>6. QED
        BY <4>1, <4>2, <4>3, <4>5
    <3>2. CASE n > 0
      <4>1. call' = [call EXCEPT !.at = "copyOut", !.out = sp.rx_out, !.n = n]
        BY <2>2, <3>1, <3>2 DEF ReadSample
      <4>2. /\ call' \in CallRecord /\ call'.at = "copyOut" /\ call'.out = sp.rx_out
            /\ call'.n = n /\ call'.left = call.left
        BY <1>1, <1>4, <1>5, <4>1 DEF CallRecord, CallPlaces
      <4>3. QED
        BY <1>3, <3>1, <3>2, <4>2 DEF InCall
    <3>3. CASE ~(n > 0)
      <4>1. PICK g \in BOOLEAN : g = (~build.rereads /\ Gone)
        BY Zenon DEF Gone
      <4>2. \/ call' = [call EXCEPT !.at = "open"] \/ call' = Idle
            \/ call' = [call EXCEPT !.at = "getWait", !.in = sp.rx_in, !.gone = g]
        BY <2>2, <3>1, <3>3, <4>1 DEF ReadSample, Goto, Return
      <4>3. call' \in CallRecord /\ call'.at \in {"open", "idle", "getWait"}
        BY <1>1, <1>4, <1>5, <4>2, IdleIsACall DEF CallRecord, CallPlaces
      <4>4. QED
        BY <4>3 DEF InCall
    <3>4. QED
      BY <3>2, <3>3
  <2>3. QED
    BY <2>1, <2>2
<1>7. Transmitting' /\ Receiving' /\ SeenMoves
  <2>1. Quiet
    BY <1>3 DEF Quiet
  <2>2. QED
    BY <2>1, QuietStreams
<1>8. ConsoleTypes' /\ InRoutine'
  BY <1>3, <1>6, Zenon DEF ConsoleInv, ConsoleTypes, InRoutine
<1>9. SmallOnly'
  BY <1>2, <1>3, <1>6, Zenon DEF SmallOnly
<1>10. QED
  BY <1>6, <1>7, <1>8, <1>9, Zenon DEF ConsoleInv

(* Characters are copied to the ring.  The routine may have emptied it     *)
(* further since the pointers were read, never filled it.                  *)
LEMMA WriteCopyInv ==
  ASSUME JtagAssumption, ConsoleInv, WriteCopy PROVE ConsoleInv' /\ SeenMoves
<1>1. /\ sp \in DriverRecord /\ call \in CallRecord /\ seen \in SeenRecord
      /\ BUF_LEN \in Nat /\ BUF_LEN > 1
  BY DEF ConsoleInv, ConsoleTypes, JtagAssumption
<1>2. Running /\ build.small = FALSE
  <2>1. Running /\ call.at = "copyIn"
    BY DEF WriteCopy, At
  <2>2. QED
    BY <2>1, SmallRests
<1>3. build' = build /\ hw' = hw /\ isr' = isr /\ irq_enable' = irq_enable
  BY DEF WriteCopy
<1>4. /\ call.in = sp.tx_in /\ call.n > 0 /\ call.n <= call.left
      /\ call.in + call.n <= BUF_LEN
      /\ call.n + Fill(sp.tx_in, sp.tx_out) <= BUF_LEN - 1
      /\ call.n \in Nat /\ call.left \in Nat /\ sp.tx_in \in Places /\ sp.tx_out \in Places
      /\ seen.written \in Nat /\ sp.tx_buf \in [Places -> Nat] /\ sp.tx_in \in Nat
  BY <1>1 DEF ConsoleInv, InCall, WriteCopy, At, DriverRecord, CallRecord, SeenRecord, Places
<1>5. PICK k \in Nat, in \in Places : k = call.n /\ in = sp.tx_in
  BY <1>4
<1>6. PICK buf2 : buf2 = [i \in Places |-> IF i \in in .. in + k - 1
                                           THEN seen.written + i - in + 1 ELSE sp.tx_buf[i]]
  OBVIOUS
<1>7. in \in Nat /\ in + k <= BUF_LEN /\ in < BUF_LEN
  BY <1>1, <1>4, <1>5 DEF Places
<1>8. buf2 \in [Places -> Nat]
  <2>1. ASSUME NEW i \in Places
        PROVE (IF i \in in .. in + k - 1 THEN seen.written + i - in + 1 ELSE sp.tx_buf[i]) \in Nat
    BY <1>1, <1>4, <1>7 DEF Places
  <2>2. QED
    BY <1>6, <2>1
<1>9. \A j \in 0 .. k - 1 : buf2[On(in, j)] = seen.written + j + 1
  <2> SUFFICES ASSUME NEW j \in 0 .. k - 1 PROVE buf2[On(in, j)] = seen.written + j + 1
    OBVIOUS
  <2>1. j \in 0 .. BUF_LEN /\ in + j < BUF_LEN /\ in + j \in Places /\ in + j \in in .. in + k - 1
    BY <1>1, <1>7 DEF Places
  <2>2. On(in, j) = in + j
    BY <2>1, Moves
  <2>3. buf2[in + j] = seen.written + (in + j) - in + 1
    BY <1>6, <2>1
  <2>4. QED
    BY <1>4, <1>7, <2>2, <2>3
<1>10. \A i \in Places : Fill(i, in) >= k => buf2[i] = sp.tx_buf[i]
  <2> SUFFICES ASSUME NEW i \in Places, Fill(i, in) >= k PROVE buf2[i] = sp.tx_buf[i]
    OBVIOUS
  <2>1. Fill(i, in) = IF i >= in THEN i - in ELSE i - in + BUF_LEN
    BY Moves
  <2>2. i \notin in .. in + k - 1
    BY <1>1, <1>7, <2>1 DEF Places
  <2>3. QED
    BY <1>6, <2>2
<1>11. /\ sp' \in DriverRecord
       /\ sp'.rx_in = sp.rx_in /\ sp'.rx_out = sp.rx_out /\ sp'.rx_buf = sp.rx_buf
       /\ sp'.tx_in = On(in, k) /\ sp'.tx_out = sp.tx_out /\ sp'.tx_buf = buf2
  <2>1. PICK p \in Places : p = On(in, k) /\ p = (in + k) % BUF_LEN
    <3>1. k \in 0 .. BUF_LEN
      BY <1>1, <1>7
    <3>2. On(in, k) \in Places
      BY <3>1, Moves
    <3>3. QED
      BY <3>2 DEF On
  <2>2. DOMAIN sp.tx_buf = Places
    BY <1>4
  <2>3. sp' = [sp EXCEPT !.tx_in = p, !.tx_buf = buf2]
    BY <1>1, <1>4, <1>5, <1>6, <2>1, <2>2 DEF WriteCopy, DriverRecord
  <2>4. QED
    BY <1>1, <1>8, <2>1, <2>3 DEF DriverRecord
<1>12. /\ seen' \in SeenRecord /\ seen'.written = seen.written + k /\ seen'.shown = seen.shown
       /\ seen'.sent = seen.sent /\ seen'.read = seen.read
  <2>1. PICK w \in Nat : w = seen.written + k
    BY <1>4
  <2>2. seen' = [seen EXCEPT !.written = w]
    BY <1>5, <2>1 DEF WriteCopy
  <2>3. QED
    BY <1>1, <2>1, <2>2 DEF SeenRecord
<1>13. call' \in CallRecord /\ call'.at = "put"
  <2>1. PICK l \in Nat : l = call.left - call.n
    BY <1>4
  <2>2. call' = [call EXCEPT !.at = "put", !.left = l, !.in = 0, !.n = 0]
    BY <2>1 DEF WriteCopy
  <2>3. QED
    BY <1>1, <2>2 DEF CallRecord, CallPlaces
<1>14. Transmitting'
  <2>1. PICK m \in Nat : FifoHolds(hw.wfifo, seen.shown, m)
                         /\ RingHolds(sp.tx_buf, sp.tx_in, sp.tx_out, m, seen.written)
    BY Zenon DEF ConsoleInv, Transmitting
  <2>2. RingHolds(buf2, On(in, k), sp.tx_out, m, seen.written + k)
    <3>1. RingHolds(sp.tx_buf, in, sp.tx_out, m, seen.written)
          /\ k + Fill(in, sp.tx_out) <= BUF_LEN - 1
      BY <1>4, <1>5, <2>1
    <3>2. QED
      BY <1>8, <1>9, <1>10, <3>1, RingGrows
  <2>3. QED
    BY <1>3, <1>11, <1>12, <2>1, <2>2, Zenon DEF Transmitting
<1>15. Receiving' /\ ConsoleTypes' /\ InRoutine'
  BY <1>3, <1>11, <1>12, <1>13, Zenon DEF ConsoleInv, Receiving, ConsoleTypes, InRoutine
<1>16. InCall'
  BY <1>13 DEF InCall
<1>17. SmallOnly'
  <2>1. call'.at \notin {"putSmall", "getSmall"}
    BY <1>13
  <2>2. QED
    BY <1>2, <1>3, <2>1, Zenon DEF SmallOnly
<1>18. SeenMoves
  BY <1>1, <1>12 DEF SeenMoves, OnlyGrows, SeenRecord
<1>19. QED
  BY <1>14, <1>15, <1>16, <1>17, <1>18, Zenon DEF ConsoleInv

(* Characters are copied from the ring, which may hold more by now.        *)
LEMMA ReadCopyInv ==
  ASSUME JtagAssumption, ConsoleInv, ReadCopy PROVE ConsoleInv' /\ SeenMoves
<1>1. /\ sp \in DriverRecord /\ call \in CallRecord /\ seen \in SeenRecord
      /\ BUF_LEN \in Nat /\ BUF_LEN > 1
  BY DEF ConsoleInv, ConsoleTypes, JtagAssumption
<1>2. Running /\ build.small = FALSE
  <2>1. Running /\ call.at = "copyOut"
    BY DEF ReadCopy, At
  <2>2. QED
    BY <2>1, SmallRests
<1>3. build' = build /\ hw' = hw /\ isr' = isr /\ irq_enable' = irq_enable
  BY DEF ReadCopy
<1>4. /\ call.out = sp.rx_out /\ call.n > 0 /\ call.n <= call.left
      /\ call.out + call.n <= BUF_LEN
      /\ call.n <= Fill(sp.rx_in, sp.rx_out)
      /\ call.n \in Nat /\ call.left \in Nat /\ sp.rx_in \in Places /\ sp.rx_out \in Places
      /\ seen.read \in Nat
  BY <1>1 DEF ConsoleInv, InCall, ReadCopy, At, DriverRecord, CallRecord, SeenRecord
<1>5. PICK k \in Nat, out \in Places : k = call.n /\ out = sp.rx_out
  BY <1>4
<1>6. out \in Nat /\ out + k <= BUF_LEN /\ out < BUF_LEN /\ k > 0 /\ k \in 0 .. BUF_LEN
  BY <1>1, <1>4, <1>5 DEF Places
<1>7. PICK m \in Nat : RingHolds(sp.rx_buf, sp.rx_in, out, seen.read, m)
                       /\ FifoHolds(hw.rfifo, m, seen.sent)
  BY <1>5, Zenon DEF ConsoleInv, Receiving
<1>8. /\ RingHolds(sp.rx_buf, sp.rx_in, On(out, k), seen.read + k, m)
      /\ \A j \in 0 .. k - 1 : sp.rx_buf[On(out, j)] = seen.read + j + 1
  <2>1. k <= m - seen.read
    BY <1>4, <1>5, <1>7 DEF RingHolds
  <2>2. QED
    BY <1>7, <2>1, RingTake
<1>9. sp.rx_buf[call.out + call.n - 1] = seen.read + k
  <2>1. k - 1 \in 0 .. k - 1 /\ k - 1 \in 0 .. BUF_LEN /\ out + (k - 1) < BUF_LEN
    BY <1>1, <1>6
  <2>2. On(out, k - 1) = out + (k - 1)
    BY <2>1, Moves
  <2>3. sp.rx_buf[out + (k - 1)] = seen.read + (k - 1) + 1
    BY <1>8, <2>1, <2>2
  <2>4. out + (k - 1) = call.out + call.n - 1 /\ seen.read + (k - 1) + 1 = seen.read + k
    BY <1>4, <1>5, <1>6
  <2>5. QED
    BY <2>3, <2>4
<1>10. /\ sp' \in DriverRecord
       /\ sp'.rx_in = sp.rx_in /\ sp'.rx_out = On(out, k) /\ sp'.rx_buf = sp.rx_buf
       /\ sp'.tx_in = sp.tx_in /\ sp'.tx_out = sp.tx_out /\ sp'.tx_buf = sp.tx_buf
  <2>1. PICK p \in Places : p = On(out, k) /\ p = (out + k) % BUF_LEN
    <3>1. On(out, k) \in Places
      BY <1>6, Moves
    <3>2. QED
      BY <3>1 DEF On
  <2>2. sp' = [sp EXCEPT !.rx_out = p]
    BY <1>4, <1>5, <2>1 DEF ReadCopy
  <2>3. QED
    BY <1>1, <2>1, <2>2 DEF DriverRecord
<1>11. /\ seen' \in SeenRecord /\ seen'.written = seen.written /\ seen'.shown = seen.shown
       /\ seen'.sent = seen.sent /\ seen'.read = seen.read + k
  <2>1. PICK r \in Nat : r = seen.read + k
    BY <1>4
  <2>2. seen' = [seen EXCEPT !.read = r]
    BY <1>9, <2>1 DEF ReadCopy
  <2>3. QED
    BY <1>1, <2>1, <2>2 DEF SeenRecord
<1>12. call' \in CallRecord /\ call'.at = "get"
  <2>1. PICK l \in Nat : l = call.left - call.n
    BY <1>4
  <2>2. call' = [call EXCEPT !.at = "get", !.left = l, !.out = 0, !.n = 0, !.moved = TRUE]
    BY <2>1 DEF ReadCopy
  <2>3. QED
    BY <1>1, <2>2 DEF CallRecord, CallPlaces
<1>13. Receiving'
  BY <1>3, <1>7, <1>8, <1>10, <1>11, Zenon DEF Receiving
<1>14. Transmitting' /\ ConsoleTypes' /\ InRoutine'
  BY <1>3, <1>10, <1>11, <1>12, Zenon DEF ConsoleInv, Transmitting, ConsoleTypes, InRoutine
<1>15. InCall'
  BY <1>12 DEF InCall
<1>16. SmallOnly'
  <2>1. call'.at \notin {"putSmall", "getSmall"}
    BY <1>12
  <2>2. QED
    BY <1>2, <1>3, <2>1, Zenon DEF SmallOnly
<1>17. SeenMoves
  BY <1>1, <1>11 DEF SeenMoves, OnlyGrows, SeenRecord
<1>18. QED
  BY <1>13, <1>14, <1>15, <1>16, <1>17, Zenon DEF ConsoleInv

(* What a call is about to copy is not touched when the routine moves the  *)
(* other end of a ring.                                                    *)
LEMMA RoutineMoves ==
  ASSUME JtagAssumption, ConsoleInv, call' = call,
         sp'.tx_in = sp.tx_in, sp'.rx_out = sp.rx_out,
         Fill(sp'.tx_in, sp'.tx_out) <= Fill(sp.tx_in, sp.tx_out),
         Fill(sp.rx_in, sp.rx_out) <= Fill(sp'.rx_in, sp'.rx_out),
         sp' \in DriverRecord
  PROVE  InCall'
<1>1. /\ sp \in DriverRecord /\ call \in CallRecord /\ BUF_LEN \in Nat
  BY DEF ConsoleInv, ConsoleTypes, JtagAssumption
<1>2. PICK t, r, t2, r2 \in Nat : /\ t = Fill(sp.tx_in, sp.tx_out) /\ r = Fill(sp.rx_in, sp.rx_out)
                                  /\ t2 = Fill(sp'.tx_in, sp'.tx_out) /\ r2 = Fill(sp'.rx_in, sp'.rx_out)
  <2>1. /\ Fill(sp.tx_in, sp.tx_out) \in Places /\ Fill(sp.rx_in, sp.rx_out) \in Places
        /\ Fill(sp'.tx_in, sp'.tx_out) \in Places /\ Fill(sp'.rx_in, sp'.rx_out) \in Places
    BY <1>1, Moves DEF DriverRecord
  <2>2. Places \subseteq Nat
    BY <1>1 DEF Places
  <2>3. QED
    BY <2>1, <2>2
<1>3. t2 <= t /\ r <= r2 /\ call.n \in Nat
  BY <1>1, <1>2 DEF CallRecord
<1>4. call.at = "copyIn" =>
        /\ call.in = sp.tx_in /\ call.n > 0 /\ call.n <= call.left
        /\ call.in + call.n <= BUF_LEN
        /\ call.n + t <= BUF_LEN - 1
  BY <1>2 DEF ConsoleInv, InCall
<1>5. call.at = "copyOut" =>
        /\ call.out = sp.rx_out /\ call.n > 0 /\ call.n <= call.left
        /\ call.out + call.n <= BUF_LEN
        /\ call.n <= r
  BY <1>2 DEF ConsoleInv, InCall
<1>6. call.n + t <= BUF_LEN - 1 => call.n + t2 <= BUF_LEN - 1
  BY <1>1, <1>3
<1>7. call.n <= r => call.n <= r2
  BY <1>3
<1>8. QED
  BY <1>2, <1>4, <1>5, <1>6, <1>7, Zenon DEF InCall

(* The routine takes over what was received.                               *)
LEMMA IsrReceiveInv ==
  ASSUME JtagAssumption, ConsoleInv, IsrReceive PROVE ConsoleInv' /\ SeenMoves
<1>1. /\ hw \in UartRecord /\ sp \in DriverRecord /\ seen \in SeenRecord /\ isr \in RoutineRecord
      /\ irq_enable \in EnableRecord
      /\ BUF_LEN \in Nat /\ BUF_LEN > 1 /\ Depth \in Nat
  BY DEF ConsoleInv, ConsoleTypes, JtagAssumption
<1>2. build.small = FALSE
  <2>1. isr.at # "off"
    BY DEF IsrReceive
  <2>2. QED
    BY <2>1, SmallRests
<1>3. build' = build /\ call' = call /\ seen' = seen
  BY DEF IsrReceive
<1>4. isr' \in RoutineRecord /\ isr'.at = "transmit" /\ isr'.space = isr.space /\ isr.at = "receive"
  <2>1. isr' = [isr EXCEPT !.at = "transmit"] /\ isr.at = "receive"
    BY DEF IsrReceive
  <2>2. QED
    BY <1>1, <2>1 DEF RoutineRecord
<1>5. /\ sp.rx_in \in Places /\ sp.rx_out \in Places /\ sp.tx_in \in Places /\ sp.tx_out \in Places
      /\ sp.rx_buf \in [Places -> Nat] /\ hw.rfifo \in Seq(Nat) /\ Len(hw.rfifo) \in Nat
      /\ Places \subseteq Nat
  <2>1. /\ sp.rx_in \in Places /\ sp.rx_out \in Places /\ sp.tx_in \in Places /\ sp.tx_out \in Places
        /\ sp.rx_buf \in [Places -> Nat]
    BY <1>1 DEF DriverRecord
  <2>2. hw.rfifo \in Seq(Nat)
    BY <1>1 DEF UartRecord
  <2>3. Places \subseteq Nat
    BY <1>1 DEF Places
  <2>4. QED
    BY <2>1, <2>2, <2>3, LenProperties
<1>6. PICK f \in Nat : f = Fill(sp.rx_in, sp.rx_out) /\ f <= BUF_LEN - 1
  <2>1. Fill(sp.rx_in, sp.rx_out) \in Places
    BY <1>5, Moves
  <2>2. QED
    BY <1>1, <2>1 DEF Places
<1>7. PICK m \in Nat : RingHolds(sp.rx_buf, sp.rx_in, sp.rx_out, seen.read, m)
                       /\ FifoHolds(hw.rfifo, m, seen.sent)
  BY Zenon DEF ConsoleInv, Receiving
<1>8. /\ hw' \in UartRecord /\ sp' \in DriverRecord /\ irq_enable' \in EnableRecord
      /\ hw'.wfifo = hw.wfifo /\ sp'.rx_out = sp.rx_out
      /\ sp'.tx_in = sp.tx_in /\ sp'.tx_out = sp.tx_out /\ sp'.tx_buf = sp.tx_buf
      /\ f <= Fill(sp'.rx_in, sp'.rx_out)
      /\ Receiving'
  <2>1. CASE ~isr.ri
    <3>1. hw' = hw /\ sp' = sp /\ irq_enable' = irq_enable
      BY <2>1, Zenon DEF IsrReceive
    <3>2. Receiving'
      BY <1>3, <3>1, Zenon DEF ConsoleInv, Receiving
    <3>3. QED
      BY <1>1, <1>6, <3>1, <3>2
  <2>2. CASE isr.ri
    <3>1. PICK room \in Nat : room = (sp.rx_out - sp.rx_in - 1) % BUF_LEN /\ room = BUF_LEN - 1 - f
      <4>1. (sp.rx_out - sp.rx_in - 1) % BUF_LEN = BUF_LEN - 1 - f
        BY <1>5, <1>6, Moves
      <4>2. BUF_LEN - 1 - f \in Nat
        BY <1>1, <1>6
      <4>3. QED
        BY <4>1, <4>2
    <3>2. PICK k \in Nat : /\ k = Smaller(room, Len(hw.rfifo))
                           /\ k <= room /\ k <= Len(hw.rfifo)
      BY <1>5, SmallerIs
    <3>3. k + f <= BUF_LEN - 1 /\ k \in 0 .. BUF_LEN - 1 /\ k \in 0 .. BUF_LEN
      BY <1>1, <1>6, <3>1, <3>2
    <3>4. PICK buf2 : buf2 = [i \in Places |-> IF Fill(i, sp.rx_in) < k
                                THEN hw.rfifo[Fill(i, sp.rx_in) + 1] ELSE sp.rx_buf[i]]
      OBVIOUS
    <3>5. PICK p \in Places : p = On(sp.rx_in, k) /\ p = (sp.rx_in + k) % BUF_LEN
      <4>1. On(sp.rx_in, k) \in Places
        BY <1>5, <3>3, Moves
      <4>2. QED
        BY <4>1 DEF On
    <3>6. buf2 \in [Places -> Nat]
      <4>1. ASSUME NEW i \in Places
            PROVE (IF Fill(i, sp.rx_in) < k THEN hw.rfifo[Fill(i, sp.rx_in) + 1]
                   ELSE sp.rx_buf[i]) \in Nat
        <5>1. PICK g \in Nat : g = Fill(i, sp.rx_in)
          BY <1>5, Moves
        <5>2. CASE g < k
          <6>1. g + 1 \in 1 .. Len(hw.rfifo)
            BY <1>5, <3>2, <5>2
          <6>2. hw.rfifo[g + 1] \in Nat
            BY <1>5, <6>1, ElementOfSeq
          <6>3. QED
            BY <5>1, <5>2, <6>2
        <5>3. CASE ~(g < k)
          BY <1>5, <5>1, <5>3
        <5>4. QED
          BY <5>2, <5>3
      <4>2. QED
        BY <3>4, <4>1
    <3>7. \A j \in 0 .. k - 1 : buf2[On(sp.rx_in, j)] = m + j + 1
      <4> SUFFICES ASSUME NEW j \in 0 .. k - 1 PROVE buf2[On(sp.rx_in, j)] = m + j + 1
        OBVIOUS
      <4>1. j \in 0 .. BUF_LEN - 1 /\ j \in 0 .. BUF_LEN /\ j < k /\ j \in Nat
        BY <1>1, <3>3
      <4>2. PICK q \in Places : q = On(sp.rx_in, j)
        BY <1>5, <4>1, Moves
      <4>3. Fill(q, sp.rx_in) = j
        BY <1>5, <4>1, <4>2, Further
      <4>4. buf2[q] = hw.rfifo[j + 1]
        BY <3>4, <4>1, <4>3
      <4>5. j + 1 \in 1 .. seen.sent - m /\ m + (j + 1) = m + j + 1
        <5>1. Len(hw.rfifo) = seen.sent - m /\ seen.sent \in Nat
          BY <1>7 DEF FifoHolds
        <5>2. j < Len(hw.rfifo)
          BY <1>5, <3>2, <4>1
        <5>3. QED
          BY <4>1, <5>1, <5>2
      <4>6. hw.rfifo[j + 1] = m + (j + 1)
        BY <1>7, <4>5 DEF FifoHolds
      <4>7. QED
        BY <4>2, <4>4, <4>5, <4>6
    <3>8. \A i \in Places : Fill(i, sp.rx_in) >= k => buf2[i] = sp.rx_buf[i]
      <4> SUFFICES ASSUME NEW i \in Places, Fill(i, sp.rx_in) >= k PROVE buf2[i] = sp.rx_buf[i]
        OBVIOUS
      <4>1. PICK g \in Nat : g = Fill(i, sp.rx_in)
        BY <1>5, Moves
      <4>2. ~(g < k)
        BY <4>1
      <4>3. QED
        BY <3>4, <4>1, <4>2
    <3>9. /\ sp' \in DriverRecord
          /\ sp'.rx_in = On(sp.rx_in, k) /\ sp'.rx_out = sp.rx_out /\ sp'.rx_buf = buf2
          /\ sp'.tx_in = sp.tx_in /\ sp'.tx_out = sp.tx_out /\ sp'.tx_buf = sp.tx_buf
      <4>1. sp' = [sp EXCEPT !.rx_in = (@ + k) % BUF_LEN,
                             !.rx_buf = [i \in DOMAIN @ |->
                               IF (i - sp.rx_in) % BUF_LEN < k
                               THEN hw.rfifo[((i - sp.rx_in) % BUF_LEN) + 1] ELSE @[i]]]
        BY <2>2, <3>1, <3>2 DEF IsrReceive
      <4>2. DOMAIN sp.rx_buf = Places
        BY <1>5
      <4>3. sp' = [sp EXCEPT !.rx_in = p, !.rx_buf = buf2]
        BY <1>1, <3>4, <3>5, <4>1, <4>2 DEF DriverRecord, Fill
      <4>4. QED
        BY <1>1, <3>5, <3>6, <4>3 DEF DriverRecord
    <3>10. /\ hw' \in UartRecord /\ irq_enable' \in EnableRecord /\ hw'.wfifo = hw.wfifo
           /\ hw'.rfifo = SubSeq(hw.rfifo, k + 1, Len(hw.rfifo))
      <4>1. PICK u \in BOOLEAN : u = (hw.pause_irq /\ room = 0)
        OBVIOUS
      <4>2. PICK taken : taken = [hw EXCEPT !.rfifo = SubSeq(@, k + 1, Len(@)), !.pause_irq = u]
        OBVIOUS
      <4>3. PICK q \in Seq(Nat) : q = SubSeq(hw.rfifo, k + 1, Len(hw.rfifo))
        <5>1. FifoHolds(SubSeq(hw.rfifo, k + 1, Len(hw.rfifo)), m + k, seen.sent)
          BY <1>7, <3>2, FifoDrop
        <5>2. QED
          BY <5>1 DEF FifoHolds
      <4>4. taken \in UartRecord /\ taken.wfifo = hw.wfifo /\ taken.rfifo = q
        BY <1>1, <4>2, <4>3 DEF UartRecord
      <4>5. \/ /\ irq_enable' = [irq_enable EXCEPT !.RE = FALSE]
               /\ hw' = ControlWritten(taken, irq_enable')
            \/ irq_enable' = irq_enable /\ hw' = taken
        BY <2>2, <3>1, <3>2, <4>1, <4>2, Zenon DEF IsrReceive
      <4>6. irq_enable' \in EnableRecord
        BY <1>1, <4>5 DEF EnableRecord
      <4>7. hw' \in UartRecord /\ hw'.wfifo = taken.wfifo /\ hw'.rfifo = taken.rfifo
        BY <4>4, <4>5, <4>6, WritesEnables
      <4>8. QED
        BY <4>3, <4>4, <4>6, <4>7
    <3>11. RingHolds(buf2, On(sp.rx_in, k), sp.rx_out, seen.read, m + k)
      <4>1. k + Fill(sp.rx_in, sp.rx_out) <= BUF_LEN - 1
        BY <1>6, <3>3
      <4>2. QED
        BY <1>7, <3>6, <3>7, <3>8, <4>1, RingGrows
    <3>12. FifoHolds(SubSeq(hw.rfifo, k + 1, Len(hw.rfifo)), m + k, seen.sent) /\ m + k \in Nat
      BY <1>7, <3>2, FifoDrop
    <3>13. Receiving'
      BY <1>3, <3>9, <3>10, <3>11, <3>12, Zenon DEF Receiving
    <3>14. f <= Fill(sp'.rx_in, sp'.rx_out)
      <4>1. Fill(On(sp.rx_in, k), sp.rx_out) = f + k
        <5>1. k + Fill(sp.rx_in, sp.rx_out) <= BUF_LEN - 1
          BY <1>6, <3>3
        <5>2. Fill(On(sp.rx_in, k), sp.rx_out) = Fill(sp.rx_in, sp.rx_out) + k
          <6>1. PICK i, o \in Places : i = sp.rx_in /\ o = sp.rx_out
            BY <1>5
          <6>2. k + Fill(i, o) <= BUF_LEN - 1 => Fill(On(i, k), o) = Fill(i, o) + k
            BY <3>3, FillMoves
          <6>3. QED
            BY <5>1, <6>1, <6>2
        <5>3. QED
          BY <1>6, <5>2
      <4>2. f <= f + k
        BY <1>6
      <4>3. QED
        BY <3>9, <4>1, <4>2
    <3>15. QED
      BY <3>9, <3>10, <3>13, <3>14
  <2>3. QED
    BY <2>1, <2>2
<1>9. InCall'
  <2>1. Fill(sp'.tx_in, sp'.tx_out) <= Fill(sp.tx_in, sp.tx_out)
    <3>1. PICK t \in Places : t = Fill(sp.tx_in, sp.tx_out)
      BY <1>5, Moves
    <3>2. t <= t
      BY <1>5
    <3>3. QED
      BY <1>8, <3>1, <3>2
  <2>2. QED
    BY <1>3, <1>6, <1>8, <2>1, RoutineMoves
<1>10. Transmitting' /\ ConsoleTypes'
  BY <1>3, <1>4, <1>8, Zenon DEF ConsoleInv, Transmitting, ConsoleTypes
<1>11. InRoutine'
  BY <1>4, <1>8 DEF ConsoleInv, InRoutine
<1>12. SmallOnly'
  BY <1>2, <1>3, Zenon DEF ConsoleInv, SmallOnly
<1>13. SeenMoves
  BY <1>1, <1>3 DEF SeenMoves, OnlyGrows, SeenRecord
<1>14. QED
  BY <1>8, <1>9, <1>10, <1>11, <1>12, <1>13, Zenon DEF ConsoleInv

(* The routine sends what the ring holds.                                  *)
LEMMA IsrTransmitInv ==
  ASSUME JtagAssumption, ConsoleInv, IsrTransmit PROVE ConsoleInv' /\ SeenMoves
<1>1. /\ hw \in UartRecord /\ sp \in DriverRecord /\ seen \in SeenRecord /\ isr \in RoutineRecord
      /\ irq_enable \in EnableRecord
      /\ BUF_LEN \in Nat /\ BUF_LEN > 1 /\ Depth \in Nat
  BY DEF ConsoleInv, ConsoleTypes, JtagAssumption
<1>2. build.small = FALSE
  <2>1. isr.at # "off"
    BY DEF IsrTransmit
  <2>2. QED
    BY <2>1, SmallRests
<1>3. build' = build /\ call' = call /\ seen' = seen
  BY DEF IsrTransmit
<1>4. isr' \in RoutineRecord /\ isr'.at = "control" /\ isr.at = "transmit"
  <2>1. isr' = [Away EXCEPT !.at = "control"] /\ isr.at = "transmit"
    BY DEF IsrTransmit
  <2>2. QED
    BY <2>1 DEF RoutineRecord, Away
<1>5. /\ sp.rx_in \in Places /\ sp.rx_out \in Places /\ sp.tx_in \in Places /\ sp.tx_out \in Places
      /\ hw.wfifo \in Seq(Nat) /\ Len(hw.wfifo) \in Nat /\ isr.space \in Nat
      /\ Places \subseteq Nat
  <2>1. /\ sp.rx_in \in Places /\ sp.rx_out \in Places /\ sp.tx_in \in Places /\ sp.tx_out \in Places
    BY <1>1 DEF DriverRecord
  <2>2. hw.wfifo \in Seq(Nat)
    BY <1>1 DEF UartRecord
  <2>3. isr.space \in Nat
    BY <1>1 DEF RoutineRecord
  <2>4. Places \subseteq Nat
    BY <1>1 DEF Places
  <2>5. QED
    BY <2>1, <2>2, <2>3, <2>4, LenProperties
<1>6. PICK f \in Nat : f = Fill(sp.tx_in, sp.tx_out) /\ f <= BUF_LEN - 1
  <2>1. Fill(sp.tx_in, sp.tx_out) \in Places
    BY <1>5, Moves
  <2>2. QED
    BY <1>1, <2>1 DEF Places
<1>7. PICK m \in Nat : FifoHolds(hw.wfifo, seen.shown, m)
                       /\ RingHolds(sp.tx_buf, sp.tx_in, sp.tx_out, m, seen.written)
  BY Zenon DEF ConsoleInv, Transmitting
<1>8. isr.space + Len(hw.wfifo) <= Depth
  BY <1>4 DEF ConsoleInv, InRoutine
<1>9. /\ hw' \in UartRecord /\ sp' \in DriverRecord /\ irq_enable' \in EnableRecord
      /\ hw'.rfifo = hw.rfifo /\ sp'.tx_in = sp.tx_in
      /\ sp'.rx_in = sp.rx_in /\ sp'.rx_out = sp.rx_out /\ sp'.rx_buf = sp.rx_buf
      /\ Fill(sp'.tx_in, sp'.tx_out) <= f
      /\ Transmitting'
  <2>1. CASE ~isr.wi
    <3>1. hw' = hw /\ sp' = sp /\ irq_enable' = irq_enable
      BY <2>1, Zenon DEF IsrTransmit
    <3>2. Transmitting'
      BY <1>3, <3>1, Zenon DEF ConsoleInv, Transmitting
    <3>3. QED
      BY <1>1, <1>6, <3>1, <3>2
  <2>2. CASE isr.wi
    <3>1. PICK k \in Nat : k = Smaller(isr.space, f) /\ k <= isr.space /\ k <= f
      <4>1. isr.space \in Nat /\ f \in Nat
        BY <1>5
      <4>2. QED
        BY <4>1, SmallerIs
    <3>2. (sp.tx_in - sp.tx_out) % BUF_LEN = f
      BY <1>6 DEF Fill
    <3>3. k \in 0 .. BUF_LEN - 1 /\ k \in 0 .. BUF_LEN
      BY <1>1, <1>6, <3>1
    <3>4. /\ RingHolds(sp.tx_buf, sp.tx_in, On(sp.tx_out, k), m + k, seen.written)
          /\ \A j \in 0 .. k - 1 : sp.tx_buf[On(sp.tx_out, j)] = m + j + 1
      <4>1. k <= seen.written - m
        BY <1>6, <1>7, <3>1 DEF RingHolds
      <4>2. QED
        BY <1>7, <4>1, RingTake
    <3>5. m + k \in Nat /\ m <= m + k /\ (m + k) - m = k
      BY <1>7, <3>1
    <3>6. [i \in 1 .. k |-> sp.tx_buf[(sp.tx_out + i - 1) % BUF_LEN]] = Numbered(m, m + k)
      <4>1. ASSUME NEW i \in 1 .. k PROVE sp.tx_buf[(sp.tx_out + i - 1) % BUF_LEN] = m + i
        <5>1. i - 1 \in 0 .. k - 1 /\ sp.tx_out + i - 1 = sp.tx_out + (i - 1)
              /\ m + (i - 1) + 1 = m + i
          BY <1>5, <3>1
        <5>2. sp.tx_buf[On(sp.tx_out, i - 1)] = m + (i - 1) + 1
          BY <3>4, <5>1
        <5>3. QED
          BY <5>1, <5>2 DEF On
      <4>2. [i \in 1 .. k |-> sp.tx_buf[(sp.tx_out + i - 1) % BUF_LEN]] = [i \in 1 .. k |-> m + i]
        BY <4>1
      <4>3. QED
        BY <3>5, <4>2 DEF Numbered
    <3>7. Numbered(m, m + k) \in Seq(Nat) /\ Len(Numbered(m, m + k)) = k
      BY <3>5, NumberedType
    <3>8. k <= Depth - Len(hw.wfifo) /\ Depth - Len(hw.wfifo) \in Nat
      BY <1>1, <1>5, <1>8, <3>1
    <3>9. PICK sent : sent = DataWritten(hw, Numbered(m, m + k))
      OBVIOUS
    <3>10. /\ sp' = [sp EXCEPT !.tx_out = (@ + k) % BUF_LEN]
           /\ \/ /\ irq_enable' = [irq_enable EXCEPT !.WE = FALSE]
                 /\ hw' = ControlWritten(sent, irq_enable')
              \/ irq_enable' = irq_enable /\ hw' = sent
      BY <2>2, <3>1, <3>2, <3>6, <3>9, Zenon DEF IsrTransmit
    <3>11. DataWritten(hw, Numbered(m, m + k)) = [hw EXCEPT !.wfifo = hw.wfifo \o Numbered(m, m + k)]
      <4>1. Smaller(k, Depth - Len(hw.wfifo)) = k
        BY <3>8 DEF Smaller
      <4>2. SubSeq(Numbered(m, m + k), 1, k) = Numbered(m, m + k)
        BY <3>7, SubSeqFull
      <4>3. QED
        BY <3>7, <4>1, <4>2 DEF DataWritten
    <3>12. FifoHolds(hw.wfifo \o Numbered(m, m + k), seen.shown, m + k)
      BY <1>7, <3>8, FifoAppend
    <3>13. PICK q \in Seq(Nat) : q = hw.wfifo \o Numbered(m, m + k)
      BY <3>12 DEF FifoHolds
    <3>14. irq_enable' \in EnableRecord
      BY <1>1, <3>10 DEF EnableRecord
    <3>15. hw' \in UartRecord /\ hw'.rfifo = hw.rfifo /\ hw'.wfifo = hw.wfifo \o Numbered(m, m + k)
      <4>1. sent \in UartRecord /\ sent.rfifo = hw.rfifo /\ sent.wfifo = q
        BY <1>1, <3>9, <3>11, <3>13 DEF UartRecord
      <4>2. hw' \in UartRecord /\ hw'.rfifo = sent.rfifo /\ hw'.wfifo = sent.wfifo
        BY <3>10, <3>14, <4>1, WritesEnables
      <4>3. QED
        BY <3>13, <4>1, <4>2
    <3>16. PICK p \in Places : p = On(sp.tx_out, k) /\ p = (sp.tx_out + k) % BUF_LEN
      <4>1. On(sp.tx_out, k) \in Places
        BY <1>5, <3>3, Moves
      <4>2. QED
        BY <4>1 DEF On
    <3>17. /\ sp' \in DriverRecord
           /\ sp'.tx_in = sp.tx_in /\ sp'.tx_out = On(sp.tx_out, k) /\ sp'.tx_buf = sp.tx_buf
           /\ sp'.rx_in = sp.rx_in /\ sp'.rx_out = sp.rx_out /\ sp'.rx_buf = sp.rx_buf
      <4>1. sp' = [sp EXCEPT !.tx_out = p]
        BY <3>10, <3>16
      <4>2. QED
        BY <1>1, <3>16, <4>1 DEF DriverRecord
    <3>18. Transmitting'
      BY <1>3, <3>4, <3>5, <3>12, <3>15, <3>17, Zenon DEF Transmitting
    <3>19. Fill(sp'.tx_in, sp'.tx_out) <= f
      <4>1. k <= Fill(sp.tx_in, sp.tx_out)
        BY <1>6, <3>1
      <4>2. Fill(sp.tx_in, On(sp.tx_out, k)) = Fill(sp.tx_in, sp.tx_out) - k
        <5>1. PICK i, o \in Places : i = sp.tx_in /\ o = sp.tx_out
          BY <1>5
        <5>2. k <= Fill(i, o) => Fill(i, On(o, k)) = Fill(i, o) - k
          BY <3>3, FillMoves
        <5>3. QED
          BY <4>1, <5>1, <5>2
      <4>3. f - k <= f
        BY <1>6, <3>1
      <4>4. QED
        BY <1>6, <3>17, <4>2, <4>3
    <3>20. QED
      BY <3>14, <3>15, <3>17, <3>18, <3>19
  <2>3. QED
    BY <2>1, <2>2
<1>10. InCall'
  <2>1. Fill(sp.rx_in, sp.rx_out) <= Fill(sp'.rx_in, sp'.rx_out)
    <3>1. PICK t \in Places : t = Fill(sp.rx_in, sp.rx_out)
      BY <1>5, Moves
    <3>2. t <= t
      BY <1>5
    <3>3. QED
      BY <1>9, <3>1, <3>2
  <2>2. QED
    BY <1>3, <1>6, <1>9, <2>1, RoutineMoves
<1>11. Receiving' /\ ConsoleTypes'
  BY <1>3, <1>4, <1>9, Zenon DEF ConsoleInv, Receiving, ConsoleTypes
<1>12. InRoutine'
  BY <1>4 DEF InRoutine
<1>13. SmallOnly'
  BY <1>2, <1>3, Zenon DEF ConsoleInv, SmallOnly
<1>14. SeenMoves
  BY <1>1, <1>3 DEF SeenMoves, OnlyGrows, SeenRecord
<1>15. QED
  BY <1>9, <1>10, <1>11, <1>12, <1>13, <1>14, Zenon DEF ConsoleInv

(* An empty ring holds nothing, from wherever one counts.                  *)
LEMMA RingEmpty ==
  ASSUME JtagAssumption, NEW buf, NEW in, NEW out, NEW a, NEW b,
         RingHolds(buf, in, out, a, b), in = out
  PROVE  a = b /\ \A c \in Nat : RingHolds(buf, in, out, c, c)
<1>1. Fill(in, out) = 0
  BY Moves DEF RingHolds, Places, JtagAssumption
<1>2. a = b
  BY <1>1 DEF RingHolds
<1>3. QED
  BY <1>1, <1>2 DEF RingHolds

(* The small driver goes past the rings, which stay empty.                 *)
LEMMA SmallInv ==
  ASSUME JtagAssumption, ConsoleInv, SmallWrite \/ SmallRead PROVE ConsoleInv' /\ SeenMoves
<1>1. /\ hw \in UartRecord /\ call \in CallRecord /\ seen \in SeenRecord /\ Depth \in Nat
  BY DEF ConsoleInv, ConsoleTypes, JtagAssumption
<1>2. build' = build /\ sp' = sp /\ isr' = isr /\ irq_enable' = irq_enable
  BY DEF SmallWrite, SmallRead
<1>3. /\ call.at \in {"putSmall", "getSmall"} /\ isr.at = "off"
      /\ build.small = TRUE /\ sp.tx_in = sp.tx_out /\ sp.rx_in = sp.rx_out
  <2>1. call.at \in {"putSmall", "getSmall"} /\ isr.at = "off"
    BY DEF SmallWrite, SmallRead, At, Running
  <2>2. build.small \in BOOLEAN
    BY DEF ConsoleInv, ConsoleTypes
  <2>3. build.small = TRUE
    BY <2>1, <2>2, Zenon DEF ConsoleInv, SmallOnly
  <2>4. QED
    BY <2>1, <2>3, Zenon DEF ConsoleInv, SmallOnly
<1>4. PICK m \in Nat : FifoHolds(hw.wfifo, seen.shown, m)
                       /\ RingHolds(sp.tx_buf, sp.tx_in, sp.tx_out, m, seen.written)
  BY Zenon DEF ConsoleInv, Transmitting
<1>5. m = seen.written /\ \A c \in Nat : RingHolds(sp.tx_buf, sp.tx_in, sp.tx_out, c, c)
  BY <1>3, <1>4, RingEmpty
<1>6. PICK r \in Nat : RingHolds(sp.rx_buf, sp.rx_in, sp.rx_out, seen.read, r)
                       /\ FifoHolds(hw.rfifo, r, seen.sent)
  BY Zenon DEF ConsoleInv, Receiving
<1>7. r = seen.read /\ \A c \in Nat : RingHolds(sp.rx_buf, sp.rx_in, sp.rx_out, c, c)
  BY <1>3, <1>6, RingEmpty
<1>8. /\ call' \in CallRecord /\ call'.at \in {"idle", "putSmall", "getSmall"}
      /\ hw' \in UartRecord /\ hw'.ien_AF = hw.ien_AF /\ hw'.ien_AE = hw.ien_AE
      /\ seen' \in SeenRecord /\ SeenMoves
      /\ Transmitting' /\ Receiving'
  <2>1. CASE call' = Idle /\ hw' = hw /\ seen' = seen
    <3>1. call' \in CallRecord /\ call'.at = "idle"
      BY <2>1, IdleIsACall
    <3>2. Transmitting' /\ Receiving'
      BY <1>2, <2>1, Zenon DEF ConsoleInv, Transmitting, Receiving
    <3>3. SeenMoves
      BY <1>1, <2>1 DEF SeenMoves, OnlyGrows, SeenRecord
    <3>4. QED
      BY <1>1, <2>1, <3>1, <3>2, <3>3
  <2>2. CASE /\ SmallWrite /\ call.left # 0 /\ WSPACE > 0
             /\ hw' = DataWritten(hw, <<seen.written + 1>>)
             /\ seen' = [seen EXCEPT !.written = @ + 1]
             /\ call' = [call EXCEPT !.left = @ - 1]
    <3>1. /\ call.left - 1 \in Nat /\ hw.wfifo \in Seq(Nat) /\ Len(hw.wfifo) \in Nat
          /\ seen.written \in Nat
      <4>1. call.left \in Nat /\ hw.wfifo \in Seq(Nat) /\ seen.written \in Nat
        BY <1>1 DEF CallRecord, UartRecord, SeenRecord
      <4>2. QED
        BY <2>2, <4>1, LenProperties
    <3>2. call' \in CallRecord /\ call'.at \in {"idle", "putSmall", "getSmall"}
      <4>1. PICK l \in Nat : call' = [call EXCEPT !.left = l]
        BY <2>2, <3>1
      <4>2. QED
        BY <1>1, <1>3, <4>1 DEF CallRecord
    <3>3. Depth - Len(hw.wfifo) \in Nat /\ 1 <= Depth - Len(hw.wfifo) /\ Len(hw.wfifo) < Depth
      <4>1. Depth - Len(hw.wfifo) > 0
        BY <2>2 DEF WSPACE
      <4>2. QED
        BY <1>1, <3>1, <4>1
    <3>4. /\ FifoHolds(Append(hw.wfifo, seen.written + 1), seen.shown, seen.written + 1)
      BY <1>4, <1>5, <3>3, FifoAppend1
    <3>5. PICK q \in Seq(Nat) : q = Append(hw.wfifo, seen.written + 1)
      BY <3>4 DEF FifoHolds
    <3>6. hw' = [hw EXCEPT !.wfifo = q]
      <4>1. Len(<<seen.written + 1>>) = 1 /\ Smaller(1, Depth - Len(hw.wfifo)) = 1
        BY <3>3 DEF Smaller
      <4>2. SubSeq(<<seen.written + 1>>, 1, 1) = <<seen.written + 1>>
        <5>1. <<seen.written + 1>> \in Seq(Nat)
          BY <3>1
        <5>2. QED
          BY <4>1, <5>1, SubSeqFull
      <4>3. hw.wfifo \o <<seen.written + 1>> = q
        BY <3>1, <3>5, AppendIsConcat
      <4>4. QED
        BY <2>2, <4>1, <4>2, <4>3 DEF DataWritten
    <3>7. /\ hw' \in UartRecord /\ hw'.ien_AF = hw.ien_AF /\ hw'.ien_AE = hw.ien_AE
          /\ hw'.rfifo = hw.rfifo /\ hw'.wfifo = Append(hw.wfifo, seen.written + 1)
      BY <1>1, <3>5, <3>6 DEF UartRecord
    <3>8. /\ seen' \in SeenRecord /\ seen'.written = seen.written + 1 /\ seen'.shown = seen.shown
          /\ seen'.sent = seen.sent /\ seen'.read = seen.read /\ seen.written + 1 \in Nat
      <4>1. PICK w \in Nat : w = seen.written + 1
        BY <3>1
      <4>2. seen' = [seen EXCEPT !.written = w]
        BY <2>2, <4>1
      <4>3. QED
        BY <1>1, <4>1, <4>2 DEF SeenRecord
    <3>9. Transmitting'
      BY <1>2, <1>5, <3>4, <3>7, <3>8, Zenon DEF Transmitting
    <3>10. Receiving'
      BY <1>2, <3>7, <3>8, Zenon DEF ConsoleInv, Receiving
    <3>11. SeenMoves
      BY <1>1, <3>8 DEF SeenMoves, OnlyGrows, SeenRecord
    <3>12. QED
      BY <3>2, <3>7, <3>8, <3>9, <3>10, <3>11
  <2>3. CASE /\ SmallRead /\ hw.rfifo # <<>> /\ call.left > 0
             /\ seen' = [seen EXCEPT !.read = Head(hw.rfifo)]
             /\ hw' = [hw EXCEPT !.rfifo = Tail(@), !.pause_irq = FALSE]
             /\ call' = [call EXCEPT !.left = @ - 1, !.moved = TRUE]
    <3>1. FifoHolds(Tail(hw.rfifo), seen.read + 1, seen.sent) /\ Head(hw.rfifo) = seen.read + 1
      BY <1>6, <1>7, <2>3, FifoTail
    <3>2. call' \in CallRecord /\ call'.at \in {"idle", "putSmall", "getSmall"}
      <4>1. call.left - 1 \in Nat
        BY <1>1, <2>3 DEF CallRecord
      <4>2. PICK l \in Nat : call' = [call EXCEPT !.left = l, !.moved = TRUE]
        BY <2>3, <4>1
      <4>3. QED
        BY <1>1, <1>3, <4>2 DEF CallRecord
    <3>3. PICK q \in Seq(Nat) : q = Tail(hw.rfifo)
      BY <3>1 DEF FifoHolds
    <3>4. /\ hw' \in UartRecord /\ hw'.ien_AF = hw.ien_AF /\ hw'.ien_AE = hw.ien_AE
          /\ hw'.wfifo = hw.wfifo /\ hw'.rfifo = Tail(hw.rfifo)
      <4>1. hw' = [hw EXCEPT !.rfifo = q, !.pause_irq = FALSE]
        BY <2>3, <3>3
      <4>2. QED
        BY <1>1, <3>3, <4>1 DEF UartRecord
    <3>5. /\ seen' \in SeenRecord /\ seen'.read = seen.read + 1 /\ seen'.shown = seen.shown
          /\ seen'.sent = seen.sent /\ seen'.written = seen.written /\ seen.read + 1 \in Nat
      <4>1. seen.read + 1 \in Nat
        BY <1>1 DEF SeenRecord
      <4>2. PICK w \in Nat : w = seen.read + 1
        BY <4>1
      <4>3. seen' = [seen EXCEPT !.read = w]
        BY <2>3, <3>1, <4>2
      <4>4. QED
        BY <1>1, <4>1, <4>2, <4>3 DEF SeenRecord
    <3>6. Receiving'
      BY <1>2, <1>7, <3>1, <3>4, <3>5, Zenon DEF Receiving
    <3>7. Transmitting'
      BY <1>2, <3>4, <3>5, Zenon DEF ConsoleInv, Transmitting
    <3>8. SeenMoves
      BY <1>1, <3>5 DEF SeenMoves, OnlyGrows, SeenRecord
    <3>9. QED
      BY <3>2, <3>4, <3>5, <3>6, <3>7, <3>8
  <2>4. QED
    BY <2>1, <2>2, <2>3, Zenon DEF SmallWrite, SmallRead, Return
<1>9. ConsoleTypes' /\ InRoutine' /\ SmallOnly'
  <2>1. ConsoleTypes'
    BY <1>2, <1>8, Zenon DEF ConsoleInv, ConsoleTypes
  <2>2. InRoutine'
    BY <1>2, <1>3 DEF InRoutine
  <2>3. SmallOnly'
    BY <1>2, <1>3, <1>8, Zenon DEF ConsoleInv, SmallOnly
  <2>4. QED
    BY <2>1, <2>2, <2>3
<1>10. InCall'
  BY <1>8 DEF InCall
<1>11. QED
  BY <1>8, <1>9, <1>10, Zenon DEF ConsoleInv

(* The invariant holds at the start.                                       *)
LEMMA ConsoleStart == ASSUME JtagAssumption, Init PROVE ConsoleInv
<1>1. BUF_LEN \in Nat /\ BUF_LEN > 1 /\ Depth \in Nat /\ INT_MAX \in Nat
  BY DEF JtagAssumption
<1>2. PICK b \in [small : BOOLEAN, clock : BOOLEAN, rereads : BOOLEAN] : build = b
  BY DEF Init, JtagAssumption
<1>3. PICK f \in BOOLEAN : f = ~build.small
  OBVIOUS
<1>4. hw = [rfifo |-> <<>>, wfifo |-> <<>>, pause_irq |-> FALSE, ac |-> FALSE,
            ien_AF |-> f, ien_AE |-> FALSE]
  BY <1>3, Zenon DEF Init
<1>5. PICK s \in Places, t \in Nat, blank \in [Places -> Nat] :
        sp = [timeout |-> t, host_inactive |-> 0,
              rx_in |-> s, rx_out |-> s, tx_in |-> s, tx_out |-> s, rx_buf |-> blank, tx_buf |-> blank]
  <2>1. PICK s \in Starts :
          sp = [timeout |-> IF build.clock THEN 2 ELSE INT_MAX, host_inactive |-> 0,
                rx_in |-> s, rx_out |-> s, tx_in |-> s, tx_out |-> s,
                rx_buf |-> [i \in 0 .. BUF_LEN - 1 |-> 0], tx_buf |-> [i \in 0 .. BUF_LEN - 1 |-> 0]]
    BY DEF Init
  <2>2. s \in Places
    BY DEF JtagAssumption, Places
  <2>3. PICK t \in Nat : t = IF build.clock THEN 2 ELSE INT_MAX
    BY <1>1
  <2>4. PICK blank \in [Places -> Nat] : blank = [i \in 0 .. BUF_LEN - 1 |-> 0]
    BY DEF Places
  <2>5. QED
    BY <2>1, <2>2, <2>3, <2>4
<1>6. isr = Away /\ call = Idle /\ seen = [written |-> 0, shown |-> 0, sent |-> 0, read |-> 0]
  BY DEF Init
<1>7. /\ hw.rfifo = <<>> /\ hw.wfifo = <<>> /\ hw.ien_AF = f /\ hw.ien_AE = FALSE
      /\ hw \in UartRecord
  <2>1. <<>> \in Seq(Nat)
    OBVIOUS
  <2>2. QED
    BY <1>4, <2>1 DEF UartRecord
<1>8. /\ sp.rx_in = s /\ sp.rx_out = s /\ sp.tx_in = s /\ sp.tx_out = s
      /\ sp.rx_buf = blank /\ sp.tx_buf = blank /\ sp \in DriverRecord
  BY <1>5 DEF DriverRecord
<1>9. isr \in RoutineRecord /\ isr.at = "off"
  BY <1>6 DEF RoutineRecord, Away
<1>10. call \in CallRecord /\ call.at = "idle"
  BY <1>6, IdleIsACall
<1>11. /\ seen \in SeenRecord /\ seen.written = 0 /\ seen.shown = 0 /\ seen.sent = 0 /\ seen.read = 0
  BY <1>6 DEF SeenRecord
<1>12. FifoHolds(<<>>, 0, 0)
  BY <1>1 DEF FifoHolds
<1>13. RingHolds(blank, s, s, 0, 0)
  <2>1. Fill(s, s) = 0
    BY <1>1, Moves DEF Places
  <2>2. QED
    BY <2>1 DEF RingHolds
<1>14. Transmitting /\ Receiving
  BY <1>7, <1>8, <1>11, <1>12, <1>13 DEF Transmitting, Receiving
<1>15. irq_enable \in EnableRecord
  <2>1. irq_enable = [RE |-> f, WE |-> FALSE]
    BY <1>3, Zenon DEF Init
  <2>2. QED
    BY <2>1 DEF EnableRecord
<1>16. ConsoleTypes
  BY <1>2, <1>7, <1>8, <1>9, <1>10, <1>11, <1>15, Zenon DEF ConsoleTypes
<1>17. InCall /\ InRoutine
  BY <1>9, <1>10 DEF InCall, InRoutine
<1>18. SmallOnly
  <2>1. CASE build.small
    <3>1. f = FALSE
      BY <1>3, <2>1
    <3>2. call.at \in {"idle", "putSmall", "getSmall"}
      BY <1>10
    <3>3. QED
      BY <1>7, <1>8, <1>9, <2>1, <3>1, <3>2, Zenon DEF SmallOnly
  <2>2. CASE ~build.small
    <3>1. call.at \notin {"putSmall", "getSmall"}
      BY <1>10
    <3>2. QED
      BY <2>2, <3>1, Zenon DEF SmallOnly
  <2>3. QED
    BY <2>1, <2>2
<1>19. QED
  BY <1>14, <1>16, <1>17, <1>18, Zenon DEF ConsoleInv

(* Every step keeps it, and moves each direction at one end at most.       *)
LEMMA ConsoleStep == ASSUME JtagAssumption, ConsoleInv, [Next]_vars PROVE ConsoleInv' /\ SeenMoves
<1>1. CASE Next
  BY <1>1, BeginInv, WaitInv, SetTimeoutInv, SampleInv, WriteCopyInv, KickInv, ReadCopyInv, SmallInv,
     InterruptInv, IsrControlInv, IsrReceiveInv, IsrTransmitInv, TimeoutInv,
     HostSendsInv, HostTakesInv, QuietHost, Zenon DEF Next, Program, Routine, Host
<1>2. CASE UNCHANGED vars
  <2>1. Quiet
    BY <1>2 DEF vars, Quiet
  <2>2. Transmitting' /\ Receiving' /\ SeenMoves
    BY <2>1, QuietStreams
  <2>3. ConsoleTypes' /\ InCall' /\ InRoutine' /\ SmallOnly'
    BY <1>2, Zenon DEF vars, ConsoleInv, ConsoleTypes, InCall, InRoutine, SmallOnly
  <2>4. QED
    BY <2>2, <2>3, Zenon DEF ConsoleInv
<1>3. QED
  BY <1>1, <1>2

-----------------------------------------------------------------------------
TransitOut == hw.wfifo \o RingChars(sp.tx_buf, sp.tx_in, sp.tx_out)
TransitIn  == RingChars(sp.rx_buf, sp.rx_in, sp.rx_out) \o hw.rfifo

(* What is on the way are the characters between the last that came out    *)
(* and the last that was put in.                                           *)
OnTheWay ==
  /\ TransitOut = Numbered(seen.shown, seen.written)
  /\ TransitIn = Numbered(seen.read, seen.sent)
  /\ seen.shown \in Nat /\ seen.written \in Nat /\ seen.shown <= seen.written
  /\ seen.read \in Nat /\ seen.sent \in Nat /\ seen.read <= seen.sent
  /\ seen.written - seen.shown <= BUF_LEN - 1 + Depth
  /\ seen.sent - seen.read <= BUF_LEN - 1 + Depth

(* The invariant says what is on the way.                                  *)
LEMMA OnTheWayHolds == ASSUME JtagAssumption, ConsoleInv PROVE OnTheWay
<1>1. BUF_LEN \in Nat /\ Depth \in Nat
  BY DEF JtagAssumption
<1>2. PICK m \in Nat : FifoHolds(hw.wfifo, seen.shown, m)
                       /\ RingHolds(sp.tx_buf, sp.tx_in, sp.tx_out, m, seen.written)
  BY Zenon DEF ConsoleInv, Transmitting
<1>3. PICK r \in Nat : RingHolds(sp.rx_buf, sp.rx_in, sp.rx_out, seen.read, r)
                       /\ FifoHolds(hw.rfifo, r, seen.sent)
  BY Zenon DEF ConsoleInv, Receiving
<1>4. /\ hw.wfifo = Numbered(seen.shown, m) /\ seen.shown \in Nat /\ seen.shown <= m
      /\ m - seen.shown <= Depth
  BY <1>2, FifoIsNumbered
<1>5. /\ RingChars(sp.tx_buf, sp.tx_in, sp.tx_out) = Numbered(m, seen.written)
      /\ seen.written \in Nat /\ m <= seen.written /\ seen.written - m <= BUF_LEN - 1
  BY <1>2, RingIsNumbered
<1>6. /\ hw.rfifo = Numbered(r, seen.sent) /\ seen.sent \in Nat /\ r <= seen.sent
      /\ seen.sent - r <= Depth
  BY <1>3, FifoIsNumbered
<1>7. /\ RingChars(sp.rx_buf, sp.rx_in, sp.rx_out) = Numbered(seen.read, r)
      /\ seen.read \in Nat /\ seen.read <= r /\ r - seen.read <= BUF_LEN - 1
  BY <1>3, RingIsNumbered
<1>8. TransitOut = Numbered(seen.shown, seen.written)
  <2>1. Numbered(seen.shown, m) \o Numbered(m, seen.written) = Numbered(seen.shown, seen.written)
    <3>1. PICK a, b \in Nat : a = seen.shown /\ b = seen.written
      BY <1>4, <1>5
    <3>2. a <= m /\ m <= b
      BY <1>4, <1>5, <3>1
    <3>3. Numbered(a, m) \o Numbered(m, b) = Numbered(a, b)
      BY <3>2, NumberedJoin, Zenon
    <3>4. QED
      BY <3>1, <3>3, Zenon
  <2>2. QED
    BY <1>4, <1>5, <2>1, Zenon DEF TransitOut
<1>9. TransitIn = Numbered(seen.read, seen.sent)
  <2>1. Numbered(seen.read, r) \o Numbered(r, seen.sent) = Numbered(seen.read, seen.sent)
    <3>1. PICK a, b \in Nat : a = seen.read /\ b = seen.sent
      BY <1>6, <1>7
    <3>2. a <= r /\ r <= b
      BY <1>6, <1>7, <3>1
    <3>3. Numbered(a, r) \o Numbered(r, b) = Numbered(a, b)
      BY <3>2, NumberedJoin, Zenon
    <3>4. QED
      BY <3>1, <3>3, Zenon
  <2>2. QED
    BY <1>6, <1>7, <2>1, Zenon DEF TransitIn
<1>10. /\ seen.shown <= seen.written /\ seen.written - seen.shown <= BUF_LEN - 1 + Depth
       /\ seen.read <= seen.sent /\ seen.sent - seen.read <= BUF_LEN - 1 + Depth
  BY <1>1, <1>4, <1>5, <1>6, <1>7
<1>11. QED
  BY <1>4, <1>5, <1>6, <1>7, <1>8, <1>9, <1>10 DEF OnTheWay

(* A stream whose characters are numbered and that grows at one end only.  *)
LEMMA PutOrTake ==
  ASSUME NEW room \in Nat, NEW a \in Nat, NEW b \in Nat, NEW a2 \in Nat, NEW b2 \in Nat,
         a <= b, a2 <= b2, b2 - a2 <= room, OnlyGrows(b, a, b2, a2)
  PROVE  \/ \E k \in 1 .. room :
              /\ Len(Numbered(a, b)) + k <= room
              /\ Numbered(a2, b2) = Numbered(a, b) \o [i \in 1 .. k |-> b + i]
              /\ b2 = b + k /\ a2 = a
         \/ \E k \in 1 .. Len(Numbered(a, b)) :
              /\ Numbered(a2, b2) = SubSeq(Numbered(a, b), k + 1, Len(Numbered(a, b)))
              /\ a2 = Numbered(a, b)[k] /\ b2 = b
         \/ a2 = a /\ b2 = b
<1>1. Len(Numbered(a, b)) = b - a /\ \A i \in 1 .. b - a : Numbered(a, b)[i] = a + i
  BY NumberedType
<1>2. CASE b2 = b /\ a2 > a
  <2>1. PICK k \in Nat : k = a2 - a /\ k <= b - a /\ k \in 1 .. b - a /\ a + k = a2
    <3>1. a2 - a \in Nat /\ a2 - a <= b - a /\ a2 - a \in 1 .. b - a /\ a + (a2 - a) = a2
      BY <1>2
    <3>2. QED
      BY <3>1
  <2>2. SubSeq(Numbered(a, b), k + 1, b - a) = Numbered(a2, b)
    <3>1. SubSeq(Numbered(a, b), k + 1, b - a) = Numbered(a + k, b)
      BY <2>1, NumberedTake, Zenon
    <3>2. QED
      BY <2>1, <3>1, Zenon
  <2>3. Numbered(a, b)[k] = a2
    BY <1>1, <2>1
  <2>4. Numbered(a2, b2) = SubSeq(Numbered(a, b), k + 1, Len(Numbered(a, b)))
    BY <1>1, <1>2, <2>2, Zenon
  <2>5. k \in 1 .. Len(Numbered(a, b))
    BY <1>1, <2>1, Zenon
  <2>6. QED
    BY <1>2, <2>3, <2>4, <2>5, Zenon
<1>3. CASE a2 = a /\ b2 > b
  <2>1. PICK k \in Nat : k \in 1 .. room /\ b + k = b2 /\ (b - a) + k <= room
    <3>1. b2 - b \in Nat /\ b2 - b \in 1 .. room /\ b + (b2 - b) = b2 /\ (b - a) + (b2 - b) <= room
      BY <1>3
    <3>2. QED
      BY <3>1
  <2>2. Numbered(a, b) \o Numbered(b, b2) = Numbered(a2, b2)
    <3>1. b <= b2
      BY <1>3
    <3>2. Numbered(a, b) \o Numbered(b, b2) = Numbered(a, b2)
      BY <3>1, NumberedJoin, Zenon
    <3>3. QED
      BY <1>3, <3>2, Zenon
  <2>3. Numbered(b, b2) = [i \in 1 .. k |-> b + i]
    <3>1. b2 - b = k
      BY <2>1
    <3>2. QED
      BY <3>1 DEF Numbered
  <2>4. Len(Numbered(a, b)) + k <= room
    BY <1>1, <2>1
  <2>5. QED
    BY <1>3, <2>1, <2>2, <2>3, <2>4, Zenon
<1>4. CASE a2 = a /\ b2 = b
  BY <1>4
<1>5. \/ b2 = b /\ a2 > a
      \/ a2 = a /\ b2 > b
      \/ a2 = a /\ b2 = b
  BY DEF OnlyGrows
<1>6. QED
  BY <1>2, <1>3, <1>4, <1>5, Zenon

(* To the program's peer each direction is one stream: what was written    *)
(* comes out in order, once each, and so does what the host sent, while    *)
(* the calls and the interrupt routine cut into each other                 *)
(* (altera_avalon_jtag_uart_init.c, lines 125-197; _write.c, 121-127;      *)
(* _read.c, 136-142).                                                      *)
THEOREM EachEndIsAStream == Spec => BothAreStreams
<1> USE JtagAssumption DEF TransitOut, TransitIn
<1>1. Init => Output!Init /\ Input!Init
  <2> SUFFICES ASSUME Init PROVE Output!Init /\ Input!Init
    OBVIOUS
  <2>1. seen.written = 0 /\ seen.shown = 0 /\ seen.sent = 0 /\ seen.read = 0
    BY DEF Init
  <2>2. OnTheWay
    BY ConsoleStart, OnTheWayHolds
  <2>3. Numbered(0, 0) = <<>>
    <3>1. Numbered(0, 0) \in Seq(Nat) /\ Len(Numbered(0, 0)) = 0
      BY NumberedType
    <3>2. QED
      BY <3>1, EmptySeq
  <2>4. QED
    BY <2>1, <2>2, <2>3 DEF OnTheWay, Output!Init, Input!Init
<1>2. ConsoleInv /\ ConsoleInv' /\ SeenMoves
        => [Output!Next]_(Output!vars) /\ [Input!Next]_(Input!vars)
  <2> SUFFICES ASSUME ConsoleInv, ConsoleInv', SeenMoves
               PROVE  [Output!Next]_(Output!vars) /\ [Input!Next]_(Input!vars)
    OBVIOUS
  <2>1. BUF_LEN - 1 + Depth \in Nat
    BY DEF JtagAssumption
  <2>2. OnTheWay
    BY OnTheWayHolds
  <2>3. OnTheWay'
    <3>1. ConsoleInv => OnTheWay
      BY OnTheWayHolds
    <3>2. (ConsoleInv => OnTheWay)'
      BY OnTheWayHolds, PTL
    <3>3. QED
      BY <3>2
  <2>4. PICK room \in Nat : room = BUF_LEN - 1 + Depth
    BY <2>1
  <2>5. PICK a, b, a2, b2 \in Nat :
          /\ a = seen.shown /\ b = seen.written /\ a2 = seen'.shown /\ b2 = seen'.written
          /\ a <= b /\ a2 <= b2 /\ b2 - a2 <= room
    BY <2>2, <2>3, <2>4 DEF OnTheWay
  <2>6. OnlyGrows(b, a, b2, a2) /\ TransitOut = Numbered(a, b) /\ TransitOut' = Numbered(a2, b2)
    BY <2>2, <2>3, <2>5 DEF OnTheWay, SeenMoves
  <2>7. [Output!Next]_(Output!vars)
    <3>1. \/ \E k \in 1 .. room :
                /\ Len(Numbered(a, b)) + k <= room
                /\ Numbered(a2, b2) = Numbered(a, b) \o [i \in 1 .. k |-> b + i]
                /\ b2 = b + k /\ a2 = a
          \/ \E k \in 1 .. Len(Numbered(a, b)) :
                /\ Numbered(a2, b2) = SubSeq(Numbered(a, b), k + 1, Len(Numbered(a, b)))
                /\ a2 = Numbered(a, b)[k] /\ b2 = b
          \/ a2 = a /\ b2 = b
      <4>1. a <= b /\ a2 <= b2 /\ b2 - a2 <= room /\ OnlyGrows(b, a, b2, a2)
        BY <2>5, <2>6, Zenon
      <4>2. QED
        BY <4>1, PutOrTake, Zenon
    <3>2. QED
      BY <2>4, <2>5, <2>6, <3>1, Zenon DEF Output!Next, Output!vars, Output!Put, Output!Take
  <2>8. PICK c, d, c2, d2 \in Nat :
          /\ c = seen.read /\ d = seen.sent /\ c2 = seen'.read /\ d2 = seen'.sent
          /\ c <= d /\ c2 <= d2 /\ d2 - c2 <= room
    BY <2>2, <2>3, <2>4 DEF OnTheWay
  <2>9. OnlyGrows(d, c, d2, c2) /\ TransitIn = Numbered(c, d) /\ TransitIn' = Numbered(c2, d2)
    BY <2>2, <2>3, <2>8 DEF OnTheWay, SeenMoves
  <2>10. [Input!Next]_(Input!vars)
    <3>1. \/ \E k \in 1 .. room :
                /\ Len(Numbered(c, d)) + k <= room
                /\ Numbered(c2, d2) = Numbered(c, d) \o [i \in 1 .. k |-> d + i]
                /\ d2 = d + k /\ c2 = c
          \/ \E k \in 1 .. Len(Numbered(c, d)) :
                /\ Numbered(c2, d2) = SubSeq(Numbered(c, d), k + 1, Len(Numbered(c, d)))
                /\ c2 = Numbered(c, d)[k] /\ d2 = d
          \/ c2 = c /\ d2 = d
      <4>1. c <= d /\ c2 <= d2 /\ d2 - c2 <= room /\ OnlyGrows(d, c, d2, c2)
        BY <2>8, <2>9, Zenon
      <4>2. QED
        BY <4>1, PutOrTake, Zenon
    <3>2. QED
      BY <2>4, <2>8, <2>9, <3>1, Zenon DEF Input!Next, Input!vars, Input!Put, Input!Take
  <2>11. QED
    BY <2>7, <2>10
<1>3. Init => ConsoleInv
  BY ConsoleStart
<1>4. ConsoleInv /\ [Next]_vars => ConsoleInv' /\ SeenMoves
  BY ConsoleStep
<1>5. QED
  BY <1>1, <1>2, <1>3, <1>4, PTL DEF Spec, BothAreStreams, Output!Spec, Input!Spec
=============================================================================
