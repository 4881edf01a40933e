-------------------------- MODULE SystemClockProofs --------------------------
(***************************************************************************)
(* Proofs about the alarms of the system clock and about its time of day,  *)
(* module SystemClock, for any number of alarms, every width of the tick   *)
(* counter, all delays and periods, and callbacks that start and stop any  *)
(* alarms.                                                                 *)
(***************************************************************************)
EXTENDS SystemClock, TLAPS

Moments  == 0 .. Modulus - 1
Elements == Alarms \cup {Head}

(* The alarms that were started and not stopped, and the head.             *)
Running == {Head} \cup {a \in Alarms : due[a] # Never}

Types ==
  /\ nticks \in Moments
  /\ list \in [next     : [Elements -> Elements \cup {Null}],
               previous : [Elements -> Elements \cup {Null}]]
  /\ alarm \in [Alarms -> [time : Moments, rollover : BOOLEAN]]
  /\ due \in [Alarms -> Moments \cup {Never}]
  /\ tick \in [at : {"off", "walk", "call"}, alarm : Elements, next : Elements]

(* The links of the running alarms are each other's inverse.               *)
Linked ==
  \A e \in Running : /\ list.next[e] \in Running /\ list.previous[e] \in Running
                     /\ list.previous[list.next[e]] = e
                     /\ list.next[list.previous[e]] = e

(* From the head the links lead to all of them.                            *)
OneRing ==
  \A S \in SUBSET Running :
    Head \in S /\ (\A e \in S : list.next[e] \in S) => S = Running

(* The others are linked to nothing or to themselves.                      *)
Unlinked ==
  \A a \in Alarms \ Running : /\ list.next[a] = list.previous[a]
                              /\ list.next[a] \in {a, Null}

Ring == Linked /\ OneRing /\ Unlinked

-----------------------------------------------------------------------------
(* The list.                                                               *)

(* What inserting an alarm changes.                                        *)
LEMMA InsertEffect ==
  ASSUME Types, Linked, NEW a \in Alarms, a \notin Running,
         list' = alt_llist_insert(list, a)
  PROVE  /\ list' \in [next     : [Elements -> Elements \cup {Null}],
                       previous : [Elements -> Elements \cup {Null}]]
         /\ list'.next[a] = list.next[Head] /\ list'.next[Head] = a
         /\ \A e \in Elements : e # a /\ e # Head => list'.next[e] = list.next[e]
         /\ list'.previous[a] = Head /\ list'.previous[list.next[Head]] = a
         /\ \A e \in Elements :
              e # a /\ e # list.next[Head] => list'.previous[e] = list.previous[e]
<1> DEFINE h == list.next[Head]
<1>1. /\ a \in Elements /\ Head \in Elements /\ a # Head
      /\ h \in Elements /\ h # a /\ Head \in Running
  BY ClockAssumption DEF Types, Linked, Running, Elements
<1>2. /\ list.next \in [Elements -> Elements \cup {Null}]
      /\ list.previous \in [Elements -> Elements \cup {Null}]
  BY DEF Types
<1>3. /\ list'.next = [[list.next EXCEPT ![a] = h] EXCEPT ![Head] = a]
      /\ list'.previous = [[list.previous EXCEPT ![a] = Head] EXCEPT ![h] = a]
      /\ list' = [next |-> list'.next, previous |-> list'.previous]
  BY DEF alt_llist_insert
<1> HIDE DEF h
<1>4. /\ list'.next \in [Elements -> Elements \cup {Null}]
      /\ list'.previous \in [Elements -> Elements \cup {Null}]
  BY <1>1, <1>2, <1>3
<1>5. QED
  BY <1>1, <1>2, <1>3, <1>4 DEF h

(* What removing one changes.                                              *)
LEMMA RemoveEffect ==
  ASSUME Types, NEW a \in Alarms,
         list.next[a] \in Elements, list.next[a] # a,
         list.previous[a] \in Elements, list.previous[a] # a,
         list' = alt_llist_remove(list, a)
  PROVE  /\ list' \in [next     : [Elements -> Elements \cup {Null}],
                       previous : [Elements -> Elements \cup {Null}]]
         /\ list'.next[a] = a /\ list'.next[list.previous[a]] = list.next[a]
         /\ \A e \in Elements :
              e # a /\ e # list.previous[a] => list'.next[e] = list.next[e]
         /\ list'.previous[a] = a /\ list'.previous[list.next[a]] = list.previous[a]
         /\ \A e \in Elements :
              e # a /\ e # list.next[a] => list'.previous[e] = list.previous[e]
<1> DEFINE n == list.next[a]
           p == list.previous[a]
<1>1. /\ a \in Elements /\ n \in Elements /\ p \in Elements /\ n # a /\ p # a
  BY DEF Elements
<1>2. /\ list.next \in [Elements -> Elements \cup {Null}]
      /\ list.previous \in [Elements -> Elements \cup {Null}]
  BY DEF Types
<1>3. /\ list'.next = [[list.next EXCEPT ![p] = n] EXCEPT ![a] = a]
      /\ list'.previous = [[list.previous EXCEPT ![n] = p] EXCEPT ![a] = a]
      /\ list' = [next |-> list'.next, previous |-> list'.previous]
  BY DEF alt_llist_remove
<1> HIDE DEF n, p
<1>4. /\ list'.next \in [Elements -> Elements \cup {Null}]
      /\ list'.previous \in [Elements -> Elements \cup {Null}]
  BY <1>1, <1>2, <1>3
<1>5. QED
  BY <1>1, <1>2, <1>3, <1>4 DEF n, p

(* Removing one that is linked to itself or to nothing changes nothing.    *)
LEMMA RemoveUnlinked ==
  ASSUME Types, NEW a \in Alarms,
         list.next[a] = list.previous[a], list.next[a] = a,
         list' = alt_llist_remove(list, a)
  PROVE  list' = list
<1>1. /\ list.next \in [Elements -> Elements \cup {Null}]
      /\ list.previous \in [Elements -> Elements \cup {Null}]
      /\ list = [next |-> list.next, previous |-> list.previous]
      /\ a \in Elements
  BY DEF Types, Elements
<1>2. /\ [list.next EXCEPT ![a] = a] = list.next
      /\ [list.previous EXCEPT ![a] = a] = list.previous
  BY <1>1
<1>3. alt_llist_remove(list, a) = list
  BY <1>1, <1>2 DEF alt_llist_remove
<1>4. QED
  BY <1>3

(* A running alarm is linked to others: alone, it would be off the ring.   *)
LEMMA LinkedToOthers ==
  ASSUME Ring, NEW a \in Running \ {Head}
  PROVE  /\ list.next[a] # a /\ list.previous[a] # a
         /\ list.next[a] \in Running /\ list.previous[a] \in Running
         /\ list.next[a] \in Elements /\ list.previous[a] \in Elements
<1>1. list.next[a] \in Running /\ list.previous[a] \in Running
  BY DEF Ring, Linked
<1>2. list.next[a] # a
  <2> SUFFICES ASSUME list.next[a] = a PROVE FALSE
    OBVIOUS
  <2> DEFINE S == Running \ {a}
  <2>1. Head \in S
    BY DEF Running
  <2>2. ASSUME NEW e \in S PROVE list.next[e] \in S
    BY <2>2 DEF Ring, Linked
  <2>3. S = Running
    BY <2>1, <2>2 DEF Ring, OneRing
  <2>4. QED
    BY <2>3
<1>3. list.previous[a] # a
  BY <1>2 DEF Ring, Linked
<1>4. QED
  BY <1>1, <1>2, <1>3 DEF Running, Elements

(* A ring stays one when an alarm enters it.                               *)
LEMMA InsertRing ==
  ASSUME Types, Ring, NEW a \in Alarms, a \notin Running,
         list' = alt_llist_insert(list, a), Running' = Running \cup {a}
  PROVE  Ring'
<1> DEFINE h == list.next[Head]
<1>1. /\ list'.next[a] = h /\ list'.next[Head] = a
      /\ \A e \in Elements : e # a /\ e # Head => list'.next[e] = list.next[e]
      /\ list'.previous[a] = Head /\ list'.previous[h] = a
      /\ \A e \in Elements : e # a /\ e # h => list'.previous[e] = list.previous[e]
  BY InsertEffect DEF Ring
<1>2. /\ Head \in Running /\ Running \subseteq Elements /\ a # Head
      /\ h \in Running /\ h # a /\ list.previous[h] = Head
  BY ClockAssumption DEF Ring, Linked, Running, Elements
<1>3. \A e \in Running : /\ list.next[e] \in Running /\ list.previous[e] \in Running
                         /\ list.previous[list.next[e]] = e
                         /\ list.next[list.previous[e]] = e
                         /\ list.next[e] # a /\ list.previous[e] # a
  BY DEF Ring, Linked
<1> HIDE DEF h
<1>4. Linked'
  <2> SUFFICES ASSUME NEW e \in Running \cup {a}
               PROVE  /\ list'.next[e] \in Running \cup {a}
                      /\ list'.previous[e] \in Running \cup {a}
                      /\ list'.previous[list'.next[e]] = e
                      /\ list'.next[list'.previous[e]] = e
    BY DEF Linked
  <2>1. CASE e = a
    BY <1>1, <1>2, <2>1
  <2>2. CASE e = Head
    BY <1>1, <1>2, <1>3, <2>2 DEF h
  <2>3. CASE e \in Running /\ e # a /\ e # Head
    <3>1. list'.next[e] = list.next[e] /\ list.next[e] # h
      BY <1>1, <1>2, <1>3, <2>3
    <3>2. list'.previous[list.next[e]] = list.previous[list.next[e]]
      BY <1>1, <1>2, <1>3, <2>3, <3>1
    <3>3. CASE e = h
      BY <1>1, <1>2, <1>3, <2>3, <3>1, <3>2, <3>3
    <3>4. CASE e # h
      <4>1. list'.previous[e] = list.previous[e] /\ list.previous[e] # Head
        BY <1>1, <1>2, <1>3, <2>3, <3>4 DEF h
      <4>2. QED
        BY <1>1, <1>2, <1>3, <2>3, <3>1, <3>2, <4>1
    <3>5. QED
      BY <3>3, <3>4
  <2>4. QED
    BY <1>2, <2>1, <2>2, <2>3
<1>5. OneRing'
  <2> SUFFICES ASSUME NEW S \in SUBSET (Running \cup {a}),
                      Head \in S, \A e \in S : list'.next[e] \in S
               PROVE  S = Running \cup {a}
    BY DEF OneRing
  <2>1. a \in S /\ h \in S
    BY <1>1
  <2>2. ASSUME NEW e \in S \ {a} PROVE list.next[e] \in S \ {a}
    BY <1>1, <1>2, <1>3, <2>1, <2>2 DEF h
  <2>3. S \ {a} \in SUBSET Running /\ Head \in S \ {a}
    BY <1>2
  <2>4. S \ {a} = Running
    BY <2>2, <2>3 DEF Ring, OneRing
  <2>5. QED
    BY <2>1, <2>4
<1>6. Unlinked'
  <2> SUFFICES ASSUME NEW b \in Alarms \ (Running \cup {a})
               PROVE  list'.next[b] = list'.previous[b] /\ list'.next[b] \in {b, Null}
    BY DEF Unlinked
  <2>1. b \in Elements /\ b # a /\ b # Head /\ b # h
    BY <1>2, ClockAssumption DEF Elements
  <2>2. QED
    BY <1>1, <2>1 DEF Ring, Unlinked
<1>7. QED
  BY <1>4, <1>5, <1>6 DEF Ring

(* And when one leaves it.                                                 *)
LEMMA RemoveRing ==
  ASSUME Types, Ring, NEW a \in Alarms, a \in Running,
         list' = alt_llist_remove(list, a), Running' = Running \ {a}
  PROVE  Ring'
<1> DEFINE n == list.next[a]
           p == list.previous[a]
<1>0. a \in Running \ {Head}
  BY ClockAssumption
<1>1. /\ list'.next[a] = a /\ list'.next[p] = n
      /\ \A e \in Elements : e # a /\ e # p => list'.next[e] = list.next[e]
      /\ list'.previous[a] = a /\ list'.previous[n] = p
      /\ \A e \in Elements : e # a /\ e # n => list'.previous[e] = list.previous[e]
  BY <1>0, LinkedToOthers, RemoveEffect
<1>2. /\ Head \in Running /\ Running \subseteq Elements /\ a # Head
      /\ n \in Running /\ p \in Running /\ n # a /\ p # a
      /\ list.previous[n] = a /\ list.next[p] = a
  BY <1>0, LinkedToOthers DEF Ring, Linked, Running, Elements
<1>3. \A e \in Running : /\ list.next[e] \in Running /\ list.previous[e] \in Running
                         /\ list.previous[list.next[e]] = e
                         /\ list.next[list.previous[e]] = e
  BY DEF Ring, Linked
<1>4. \A e \in Running : /\ list.next[e] = a => e = p
                         /\ list.previous[e] = a => e = n
                         /\ list.next[e] = n => e = a
                         /\ list.previous[e] = p => e = a
  BY <1>3
<1> HIDE DEF n, p
<1>5. Linked'
  <2> SUFFICES ASSUME NEW e \in Running \ {a}
               PROVE  /\ list'.next[e] \in Running \ {a}
                      /\ list'.previous[e] \in Running \ {a}
                      /\ list'.previous[list'.next[e]] = e
                      /\ list'.next[list'.previous[e]] = e
    BY DEF Linked
  <2>1. /\ list'.next[e] \in Running \ {a}
        /\ list'.previous[list'.next[e]] = e
    <3>1. CASE e = p
      BY <1>1, <1>2, <3>1
    <3>2. CASE e # p
      <4>1. list'.next[e] = list.next[e] /\ list.next[e] # a /\ list.next[e] # n
        BY <1>1, <1>2, <1>4, <3>2
      <4>2. QED
        BY <1>1, <1>2, <1>3, <4>1
    <3>3. QED
      BY <3>1, <3>2
  <2>2. /\ list'.previous[e] \in Running \ {a}
        /\ list'.next[list'.previous[e]] = e
    <3>1. CASE e = n
      BY <1>1, <1>2, <3>1
    <3>2. CASE e # n
      <4>1. list'.previous[e] = list.previous[e] /\ list.previous[e] # a /\ list.previous[e] # p
        BY <1>1, <1>2, <1>4, <3>2
      <4>2. QED
        BY <1>1, <1>2, <1>3, <4>1
    <3>3. QED
      BY <3>1, <3>2
  <2>3. QED
    BY <2>1, <2>2
<1>6. OneRing'
  <2> SUFFICES ASSUME NEW S \in SUBSET (Running \ {a}),
                      Head \in S, \A e \in S : list'.next[e] \in S
               PROVE  S = Running \ {a}
    BY DEF OneRing
  <2> DEFINE T == IF p \in S THEN S \cup {a} ELSE S
  <2>1. ASSUME NEW e \in T PROVE list.next[e] \in T
    <3>1. CASE e = a
      BY <1>1, <3>1, <2>1 DEF n
    <3>2. CASE e = p
      BY <1>2, <2>1, <3>2
    <3>3. CASE e # a /\ e # p
      BY <1>1, <1>2, <2>1, <3>3
    <3>4. QED
      BY <3>1, <3>2, <3>3
  <2>2. T \in SUBSET Running /\ Head \in T
    OBVIOUS
  <2>3. T = Running
    <3> HIDE DEF T
    <3> QED
      BY <2>1, <2>2 DEF Ring, OneRing
  <2>4. QED
    BY <2>3
<1>7. Unlinked'
  <2> SUFFICES ASSUME NEW b \in Alarms \ (Running \ {a})
               PROVE  list'.next[b] = list'.previous[b] /\ list'.next[b] \in {b, Null}
    BY DEF Unlinked
  <2>1. CASE b = a
    BY <1>1, <2>1
  <2>2. CASE b # a
    <3>1. b \in Elements /\ b \notin Running /\ b # n /\ b # p
      BY <1>2, <2>2 DEF Elements
    <3>2. QED
      BY <1>1, <2>2, <3>1 DEF Ring, Unlinked
  <2>3. QED
    BY <2>1, <2>2
<1>8. QED
  BY <1>5, <1>6, <1>7 DEF Ring
-----------------------------------------------------------------------------
(* The counter.                                                            *)

(* Counting on from a moment wraps once at most.                           *)
LEMMA CountOn ==
  ASSUME NEW n \in Moments, NEW d \in Moments
  PROVE  /\ (n + d) % Modulus = IF n + d < Modulus THEN n + d ELSE (n + d) - Modulus
         /\ (n + d) % Modulus \in Moments
<1>1. Modulus \in Nat /\ Modulus > 1
  BY ClockAssumption
<1>2. n \in 0 .. Modulus - 1 /\ d \in 0 .. Modulus - 1
  BY DEF Moments
<1> DEFINE q == (n + d) \div Modulus
           r == (n + d) % Modulus
<1>3. q \in Int /\ r \in 0 .. Modulus - 1 /\ n + d = Modulus * q + r
  BY <1>1, <1>2
<1> HIDE DEF q, r
<1>4. ~(q >= 2)
  <2> SUFFICES ASSUME q >= 2 PROVE FALSE
    OBVIOUS
  <2>1. Modulus * q >= Modulus * 2
    BY <1>1, <1>3
  <2>2. QED
    BY <1>1, <1>2, <1>3, <2>1
<1>5. ~(q <= -1)
  <2> SUFFICES ASSUME q <= -1 PROVE FALSE
    OBVIOUS
  <2>1. Modulus * q <= Modulus * (-1)
    BY <1>1, <1>3
  <2>2. QED
    BY <1>1, <1>2, <1>3, <2>1
<1>6. CASE q = 0
  BY <1>1, <1>2, <1>3, <1>6 DEF r, Moments
<1>7. CASE q = 1
  BY <1>1, <1>2, <1>3, <1>7 DEF r, Moments
<1>8. QED
  BY <1>3, <1>4, <1>5, <1>6, <1>7

-----------------------------------------------------------------------------
(* The times of the alarms.                                                *)

(* The time an alarm stands for is due[a] ticks ahead, and the flag says   *)
(* whether the counter rolls over on the way.                              *)
Ahead(a) ==
  \/ /\ ~alarm[a].rollover
     /\ nticks + due[a] < Modulus /\ alarm[a].time = nticks + due[a]
  \/ /\ alarm[a].rollover
     /\ nticks + due[a] >= Modulus /\ alarm[a].time = (nticks + due[a]) - Modulus

(* An alarm the walk has left, or that no walk is about to visit.          *)
Settled(a) == due[a] >= 1 /\ Ahead(a)

(* An alarm the walk has yet to visit: a roll-over is not yet in its flag. *)
Unvisited(a) ==
  IF nticks = 0 THEN alarm[a].rollover /\ alarm[a].time = due[a] ELSE Ahead(a)

(* The alarm that is being called.                                         *)
Called(a) == due[a] = 0 /\ ~alarm[a].rollover /\ alarm[a].time = nticks

(* Where the walk goes on.                                                 *)
Position == IF tick.at = "call" THEN tick.next ELSE tick.alarm

Calling(a) == tick.at = "call" /\ a = tick.alarm

(* In a walk, an alarm that is being called may have been started anew.    *)
Timed(a) ==
  IF Calling(a) THEN Called(a) \/ Settled(a) ELSE Unvisited(a) \/ Settled(a)

(* Alarms the walk has been to: a piece of the ring from the head to pos.  *)
Region(V, pos) ==
  /\ V \in SUBSET Running /\ Head \in V
  /\ \A e \in V \ {Head} : list.previous[e] \in V
  /\ \A e \in V : list.next[e] \in V \cup {pos}
  /\ pos \in Running /\ (pos \in V => pos = Head)

Past(V) == \A a \in V \ {Head} : Settled(a) \/ Calling(a)

(* Stopped by a callback, the alarm where the walk goes on leads nowhere.  *)
Stranded(pos) == pos \in Alarms \ Running /\ list.next[pos] = pos

(* The alarm that is being called may have stopped itself.                 *)
InCall == tick.at = "call" => tick.alarm \in Alarms /\ list.next[tick.alarm] # Null

Walk ==
  IF tick.at = "off" THEN \A a \in Running \ {Head} : Settled(a)
  ELSE /\ \A a \in Running \ {Head} : Timed(a)
       /\ (\E V : Region(V, Position) /\ Past(V)) \/ Stranded(Position)
       /\ InCall

IInv == Types /\ Ring /\ Walk

-----------------------------------------------------------------------------
(* The region of a walk.                                                   *)

(* It ends where the walk goes on, and is the whole ring at the head.      *)
LEMMA RegionEnds ==
  ASSUME Ring, NEW V, NEW pos, Region(V, pos)
  PROVE  IF pos = Head THEN V = Running
         ELSE pos \notin V /\ list.previous[pos] \in V
<1>1. CASE pos = Head
  BY <1>1 DEF Ring, OneRing, Region
<1>2. CASE pos # Head
  <2>1. pos \notin V /\ V # Running
    BY <1>2 DEF Region
  <2>2. PICK e \in V : list.next[e] \notin V
    BY <2>1 DEF Ring, OneRing, Region
  <2>3. list.next[e] = pos /\ e \in Running
    BY <2>2 DEF Region
  <2>4. QED
    BY <1>2, <2>1, <2>2, <2>3 DEF Ring, Linked
<1>3. QED
  BY <1>1, <1>2

(* It grows by the alarm that is visited.                                  *)
LEMMA RegionGrows ==
  ASSUME Ring, NEW V, NEW pos, Region(V, pos), pos # Head
  PROVE  Region(V \cup {pos}, list.next[pos])
<1>1. pos \notin V /\ list.previous[pos] \in V /\ pos \in Running \ {Head}
  BY RegionEnds DEF Region
<1>2. list.next[pos] \in Running /\ list.next[pos] # pos
  BY <1>1, LinkedToOthers
<1>3. list.previous[list.next[pos]] = pos
  BY <1>1 DEF Ring, Linked
<1>4. QED
  BY <1>1, <1>2, <1>3 DEF Region

(* An alarm that starts enters it right after the head.                    *)
LEMMA RegionInsert ==
  ASSUME Types, Ring, NEW a \in Alarms, a \notin Running,
         list' = alt_llist_insert(list, a), Running' = Running \cup {a},
         NEW V, NEW pos, Region(V, pos)
  PROVE  Region(V \cup {a}, pos)'
<1>1. /\ list'.next[a] = list.next[Head] /\ list'.next[Head] = a
      /\ \A e \in Elements : e # a /\ e # Head => list'.next[e] = list.next[e]
      /\ list'.previous[a] = Head /\ list'.previous[list.next[Head]] = a
      /\ \A e \in Elements :
           e # a /\ e # list.next[Head] => list'.previous[e] = list.previous[e]
  BY InsertEffect DEF Ring
<1>2. V \subseteq Running /\ Running \subseteq Elements /\ a # Head
  BY ClockAssumption DEF Region, Running, Elements
<1>3. ASSUME NEW e \in (V \cup {a}) \ {Head}
      PROVE  list'.previous[e] \in V \cup {a}
  <2>1. CASE e = a
    BY <1>1, <2>1 DEF Region
  <2>2. CASE e # a /\ e = list.next[Head]
    BY <1>1, <2>2
  <2>3. CASE e # a /\ e # list.next[Head]
    BY <1>1, <1>2, <1>3, <2>3 DEF Region
  <2>4. QED
    BY <2>1, <2>2, <2>3
<1>4. ASSUME NEW e \in V \cup {a}
      PROVE  list'.next[e] \in V \cup {a} \cup {pos}
  <2>1. CASE e = a
    BY <1>1, <2>1 DEF Region
  <2>2. CASE e = Head
    BY <1>1, <2>2
  <2>3. CASE e # a /\ e # Head
    BY <1>1, <1>2, <1>4, <2>3 DEF Region
  <2>4. QED
    BY <2>1, <2>2, <2>3
<1>5. QED
  BY <1>2, <1>3, <1>4 DEF Region

(* An alarm that stops leaves it, if it is not where the walk goes on.     *)
LEMMA RegionRemove ==
  ASSUME Types, Ring, NEW a \in Alarms, a \in Running,
         list' = alt_llist_remove(list, a), Running' = Running \ {a},
         NEW V, NEW pos, Region(V, pos), pos # a
  PROVE  Region(V \ {a}, pos)'
<1> DEFINE n == list.next[a]
           p == list.previous[a]
<1>0. a \in Running \ {Head}
  BY ClockAssumption
<1>1. /\ list'.next[a] = a /\ list'.next[p] = n
      /\ \A e \in Elements : e # a /\ e # p => list'.next[e] = list.next[e]
      /\ list'.previous[a] = a /\ list'.previous[n] = p
      /\ \A e \in Elements : e # a /\ e # n => list'.previous[e] = list.previous[e]
  BY <1>0, LinkedToOthers, RemoveEffect
<1>2. /\ V \subseteq Running /\ Running \subseteq Elements /\ a # Head
      /\ n # a /\ p # a /\ list.previous[n] = a /\ list.next[p] = a
      /\ p \in Running /\ n \in Running
  BY <1>0, LinkedToOthers DEF Ring, Linked, Region, Running, Elements
<1>3. \A e \in Running : /\ list.next[e] = a => e = p
                         /\ list.previous[e] = a => e = n
  BY DEF Ring, Linked
<1> HIDE DEF n, p
<1>4. p \in V => a \in V
  BY <1>2 DEF Region
<1>5. ASSUME NEW e \in (V \ {a}) \ {Head}
      PROVE  list'.previous[e] \in V \ {a}
  <2>1. list.previous[e] \in V
    BY <1>5 DEF Region
  <2>2. CASE e = n
    <3>1. a \in V \ {Head}
      BY <1>2, <2>1, <2>2
    <3>2. p \in V
      BY <3>1 DEF Region, p
    <3>3. QED
      BY <1>1, <1>2, <2>2, <3>2
  <2>3. CASE e # n
    BY <1>1, <1>2, <1>3, <1>5, <2>1, <2>3
  <2>4. QED
    BY <2>2, <2>3
<1>6. ASSUME NEW e \in V \ {a}
      PROVE  list'.next[e] \in (V \ {a}) \cup {pos}
  <2>1. CASE e = p
    <3>1. a \in V
      BY <1>4, <1>6, <2>1
    <3>2. n \in V \cup {pos}
      BY <3>1 DEF Region, n
    <3>3. QED
      BY <1>1, <1>2, <2>1, <3>2
  <2>2. CASE e # p
    <3>1. list'.next[e] = list.next[e] /\ list.next[e] # a
      BY <1>1, <1>2, <1>3, <1>6, <2>2
    <3>2. QED
      BY <1>6, <3>1 DEF Region
  <2>3. QED
    BY <2>1, <2>2
<1>7. QED
  BY <1>2, <1>5, <1>6 DEF Region
-----------------------------------------------------------------------------
(* Where the walk goes on when an alarm starts, possibly just there.       *)
LEMMA PlaceInsert ==
  ASSUME Types, Ring, NEW a \in Alarms, a \notin Running,
         list' = alt_llist_insert(list, a), Running' = Running \cup {a}, Ring',
         \A b \in Running \ {Head} : Past({b}) => Past({b})',
         NEW pos, Past({a})',
         (\E V : Region(V, pos) /\ Past(V)) \/ Stranded(pos)
  PROVE  (\E V : Region(V, pos)' /\ Past(V)') \/ Stranded(pos)'
<1>1. /\ list'.next[a] = list.next[Head] /\ list'.next[Head] = a
      /\ \A e \in Elements : e # a /\ e # Head => list'.next[e] = list.next[e]
  BY InsertEffect DEF Ring
<1>2. a # Head
  BY ClockAssumption
<1>3. ASSUME NEW V, Region(V, pos), Past(V)
      PROVE  Region(V \cup {a}, pos)' /\ Past(V \cup {a})'
  <2>1. Region(V \cup {a}, pos)'
    BY <1>3, RegionInsert
  <2>2. \A b \in V \ {Head} : b \in Running \ {Head} /\ Past({b})
    BY <1>3 DEF Region, Past
  <2>3. QED
    BY <2>1, <2>2 DEF Past
<1>4. CASE Stranded(pos) /\ pos = a
  <2>1. Region({Head}, pos)'
    BY <1>1, <1>2, <1>4 DEF Region, Running
  <2>2. Past({Head})'
    BY DEF Past
  <2>3. QED
    BY <2>1, <2>2
<1>5. CASE Stranded(pos) /\ pos # a
  <2>1. pos \in Elements /\ pos # Head
    BY <1>5, ClockAssumption DEF Stranded, Elements
  <2>2. QED
    BY <1>1, <1>5, <2>1 DEF Stranded
<1>6. QED
  BY <1>3, <1>4, <1>5

(* And when one stops, possibly the one just there.                        *)
LEMMA PlaceRemove ==
  ASSUME Types, Ring, NEW a \in Alarms, list.next[a] # Null,
         list' = alt_llist_remove(list, a), Running' = Running \ {a}, Ring',
         list'.next[a] = a, a \notin Running => list' = list,
         \A e \in Elements : list.next[e] # Null => list'.next[e] # Null,
         \A b \in Running \ {Head, a} : Past({b}) => Past({b})',
         NEW pos, (\E V : Region(V, pos) /\ Past(V)) \/ Stranded(pos)
  PROVE  (\E V : Region(V, pos)' /\ Past(V)') \/ Stranded(pos)'
<1>1. CASE pos = a
  BY <1>1 DEF Stranded
<1>2. ASSUME pos # a, NEW V, Region(V, pos), Past(V)
      PROVE  Region(V \ {a}, pos)' /\ Past(V \ {a})'
  <2>1. Region(V \ {a}, pos)'
    <3>1. CASE a \in Running
      BY <1>2, <3>1, RegionRemove
    <3>2. CASE a \notin Running
      <4>1. list' = list /\ Running' = Running /\ V \ {a} = V
        BY <1>2, <3>2 DEF Region
      <4>2. QED
        BY <1>2, <4>1 DEF Region
    <3>3. QED
      BY <3>1, <3>2
  <2>2. \A b \in (V \ {a}) \ {Head} : b \in Running \ {Head, a} /\ Past({b})
    BY <1>2 DEF Region, Past
  <2>3. QED
    BY <2>1, <2>2 DEF Past
<1>3. CASE pos # a /\ Stranded(pos)
  <2>1. pos \in Elements /\ list.next[pos] # Null /\ pos \in Alarms \ Running'
    BY <1>3, ClockAssumption DEF Stranded, Elements
  <2>2. QED
    BY <2>1 DEF Stranded, Ring, Unlinked
<1>4. QED
  BY <1>1, <1>2, <1>3
-----------------------------------------------------------------------------
(* The steps.                                                              *)

(* An alarm whose next time is d ticks ahead of now is settled.            *)
LEMMA SetAhead ==
  ASSUME nticks \in Moments, NEW a \in Alarms, NEW d \in Moments, d >= 1,
         nticks' = nticks, due'[a] = d,
         alarm'[a].time = (nticks + d) % Modulus,
         alarm'[a].rollover <=> alarm'[a].time < nticks
  PROVE  Settled(a)'
<1>1. alarm'[a].time = IF nticks + d < Modulus THEN nticks + d
                       ELSE (nticks + d) - Modulus
  BY CountOn
<1>2. nticks \in Int /\ d \in Int /\ Modulus \in Int /\ d < Modulus
  BY ClockAssumption DEF Moments
<1>3. CASE nticks + d < Modulus
  <2>1. alarm'[a].time = nticks + d /\ ~(nticks + d < nticks)
    BY <1>1, <1>2, <1>3
  <2>2. ~alarm'[a].rollover
    BY <2>1
  <2>3. QED
    BY <1>3, <2>1, <2>2 DEF Settled, Ahead
<1>4. CASE nticks + d >= Modulus
  <2>1. alarm'[a].time = (nticks + d) - Modulus /\ (nticks + d) - Modulus < nticks
    BY <1>1, <1>2, <1>4
  <2>2. alarm'[a].rollover
    BY <2>1
  <2>3. QED
    BY <1>4, <2>1, <2>2 DEF Settled, Ahead
<1>5. QED
  BY <1>2, <1>3, <1>4

(* Alarms and times that stay the same keep their place.                   *)
LEMMA SameTimes ==
  ASSUME NEW a, nticks' = nticks, due'[a] = due[a], alarm'[a] = alarm[a]
  PROVE  /\ Settled(a) => Settled(a)'
         /\ Unvisited(a) => Unvisited(a)'
         /\ Called(a) => Called(a)'
  BY DEF Settled, Unvisited, Called, Ahead

(* Starting an alarm.                                                      *)
LEMMA StartIInv ==
  ASSUME IInv, NEW a \in Alarms, NEW n \in Delays, alt_alarm_start(a, n)
  PROVE  IInv'
<1>1. Types /\ Ring /\ Walk
  BY DEF IInv
<1>2. /\ tick.at \in {"off", "call"} /\ tick' = tick /\ nticks' = nticks
      /\ list.next[a] \in {Null, a}
      /\ alarm' = [alarm EXCEPT ![a] = TimedAt((n + nticks + 1) % Modulus)]
      /\ list' = alt_llist_insert(list, a)
      /\ due' = [due EXCEPT ![a] = n + 1]
  BY DEF alt_alarm_start
<1>3. a \notin Running /\ a # Head
  <2>1. a # Head /\ Null \notin Elements
    BY ClockAssumption DEF Elements
  <2>2. QED
    BY <1>1, <1>2, <2>1, LinkedToOthers
<1>4. /\ n + 1 \in Moments /\ n + 1 >= 1 /\ n + 1 # Never
      /\ (n + nticks + 1) % Modulus = (nticks + (n + 1)) % Modulus
      /\ (n + nticks + 1) % Modulus \in Moments
  <2>1. n \in Int /\ 0 <= n /\ n <= Modulus - 2 /\ Modulus \in Int
    BY ClockAssumption
  <2>2. nticks \in Int
    BY <1>1 DEF Types, Moments
  <2>3. n + 1 \in Moments /\ n + 1 >= 1 /\ n + 1 # Never
    BY <2>1 DEF Moments, Never
  <2>4. n + nticks + 1 = nticks + (n + 1)
    BY <2>1, <2>2
  <2>5. nticks \in Moments
    BY <1>1 DEF Types
  <2>6. QED
    BY <2>3, <2>4, <2>5, CountOn
<1>5. /\ due'[a] = n + 1 /\ due' \in [Alarms -> Moments \cup {Never}]
      /\ \A b \in Alarms : b # a => due'[b] = due[b]
  BY <1>1, <1>2, <1>4 DEF Types
<1>6. Running' = Running \cup {a}
  BY <1>4, <1>5 DEF Running
<1> DEFINE t == (n + nticks + 1) % Modulus
<1>7. /\ alarm'[a].time = t
      /\ alarm'[a].rollover <=> alarm'[a].time < nticks
      /\ alarm' \in [Alarms -> [time : Moments, rollover : BOOLEAN]]
      /\ \A b \in Alarms : b # a => alarm'[b] = alarm[b]
  <2>1. alarm' = [alarm EXCEPT ![a] = [time |-> t, rollover |-> t < nticks]]
    BY <1>2 DEF TimedAt
  <2>2. [time |-> t, rollover |-> t < nticks] \in [time : Moments, rollover : BOOLEAN]
    BY <1>4
  <2> HIDE DEF t
  <2>3. alarm'[a] = [time |-> t, rollover |-> t < nticks]
    BY <1>1, <2>1 DEF Types
  <2>4. QED
    BY <1>1, <2>1, <2>2, <2>3 DEF Types
<1> HIDE DEF t
<1>8. Types'
  <2>1. list' \in [next     : [Elements -> Elements \cup {Null}],
                   previous : [Elements -> Elements \cup {Null}]]
    BY <1>1, <1>2, <1>3, InsertEffect DEF Ring
  <2>2. QED
    BY <1>1, <1>2, <1>5, <1>7, <2>1 DEF Types
<1>9. Ring'
  BY <1>1, <1>2, <1>3, <1>6, InsertRing
<1>10. Settled(a)'
  BY <1>1, <1>2, <1>4, <1>5, <1>7, SetAhead DEF Types, t
<1>11. \A b \in Alarms : b # a => /\ Settled(b) => Settled(b)'
                                  /\ Unvisited(b) => Unvisited(b)'
                                  /\ Called(b) => Called(b)'
  BY <1>2, <1>5, <1>7, SameTimes
<1>12. Walk'
  <2>1. CASE tick.at = "off"
    BY <1>1, <1>2, <1>6, <1>10, <1>11, <2>1 DEF Walk, Running
  <2>2. CASE tick.at = "call"
    <3>1. Position' = Position /\ \A b : Calling(b)' <=> Calling(b)
      BY <1>2 DEF Position, Calling
    <3>2. \A b \in Running \ {Head} : b \in Alarms /\ b # a
      BY <1>3 DEF Running
    <3>3. /\ \A b \in Running \ {Head} : Timed(b)
          /\ (\E V : Region(V, Position) /\ Past(V)) \/ Stranded(Position)
          /\ InCall
      BY <1>1, <2>2 DEF Walk
    <3>4. \A b \in Running' \ {Head} : Timed(b)'
      <4>1. \A b \in Running \ {Head} : Timed(b)'
        BY <1>11, <3>1, <3>2, <3>3 DEF Timed
      <4>2. Timed(a)'
        BY <1>10 DEF Timed
      <4>3. QED
        BY <1>6, <4>1, <4>2
    <3>5. (\E V : Region(V, Position)' /\ Past(V)') \/ Stranded(Position)'
      <4>1. \A b \in Running \ {Head} : Past({b}) => Past({b})'
        BY <1>11, <3>1, <3>2 DEF Past
      <4>2. Past({a})'
        BY <1>10 DEF Past
      <4>3. PICK pos : pos = Position
        OBVIOUS
      <4>4. (\E V : Region(V, pos)' /\ Past(V)') \/ Stranded(pos)'
        BY <1>1, <1>2, <1>3, <1>6, <1>9, <3>3, <4>1, <4>2, <4>3, PlaceInsert
      <4>5. QED
        BY <3>1, <4>3, <4>4 DEF Region, Stranded
    <3>6. InCall'
      <4>1. \A e \in Elements : e # a /\ e # Head => list'.next[e] = list.next[e]
        BY <1>1, <1>2, <1>3, InsertEffect DEF Ring
      <4>2. list'.next[a] = list.next[Head] /\ list.next[Head] \in Elements
        BY <1>1, <1>2, <1>3, InsertEffect DEF Ring, Linked, Running, Elements
      <4>3. tick.alarm \in Elements /\ tick.alarm # Head /\ Null \notin Elements
        BY <2>2, <3>3, ClockAssumption DEF InCall, Elements
      <4>4. list'.next[tick.alarm] # Null
        <5>1. CASE tick.alarm = a
          BY <4>2, <4>3, <5>1
        <5>2. CASE tick.alarm # a
          BY <2>2, <3>3, <4>1, <4>3, <5>2 DEF InCall
        <5>3. QED
          BY <5>1, <5>2
      <4>5. QED
        BY <1>2, <2>2, <3>3, <4>4 DEF InCall
    <3>7. tick'.at # "off"
      BY <1>2, <2>2
    <3>8. QED
      BY <3>4, <3>5, <3>6, <3>7 DEF Walk
  <2>3. QED
    BY <1>2, <2>1, <2>2
<1>13. QED
  BY <1>8, <1>9, <1>12 DEF IInv

(* Removing a running alarm from the list and from those due.              *)
LEMMA StopEffect ==
  ASSUME Types, Ring, NEW a \in Alarms, list.next[a] # Null,
         list' = alt_llist_remove(list, a), due' = [due EXCEPT ![a] = Never]
  PROVE  /\ Ring' /\ Running' = Running \ {a}
         /\ list' \in [next     : [Elements -> Elements \cup {Null}],
                       previous : [Elements -> Elements \cup {Null}]]
         /\ due' \in [Alarms -> Moments \cup {Never}]
         /\ \A b \in Alarms : b # a => due'[b] = due[b]
         /\ list'.next[a] = a
         /\ a \notin Running => list' = list
         /\ \A e \in Elements : list.next[e] # Null => list'.next[e] # Null
<1>1. /\ due'[a] = Never /\ due' \in [Alarms -> Moments \cup {Never}]
      /\ \A b \in Alarms : b # a => due'[b] = due[b]
  BY DEF Types
<1>2. Running' = Running \ {a} /\ a # Head
  BY <1>1, ClockAssumption DEF Running
<1>3. CASE a \in Running
  <2>1. a \in Running \ {Head}
    BY <1>2, <1>3
  <2>2. /\ list' \in [next     : [Elements -> Elements \cup {Null}],
                      previous : [Elements -> Elements \cup {Null}]]
        /\ list'.next[a] = a /\ list'.next[list.previous[a]] = list.next[a]
        /\ \A e \in Elements :
             e # a /\ e # list.previous[a] => list'.next[e] = list.next[e]
    BY <2>1, LinkedToOthers, RemoveEffect
  <2>3. Ring'
    BY <1>2, <1>3, RemoveRing
  <2>4. a # Null
    BY ClockAssumption
  <2>5. QED
    BY <1>1, <1>2, <1>3, <2>2, <2>3, <2>4
<1>4. CASE a \notin Running
  <2>1. list.next[a] = list.previous[a] /\ list.next[a] = a
    BY <1>4 DEF Ring, Unlinked
  <2>2. list' = list
    BY <2>1, RemoveUnlinked
  <2>3. Running' = Running
    BY <1>2, <1>4
  <2>4. Ring'
    BY <2>2, <2>3 DEF Ring, Linked, OneRing, Unlinked
  <2>5. QED
    BY <1>1, <1>2, <1>4, <2>1, <2>2, <2>4 DEF Types
<1>5. QED
  BY <1>3, <1>4

(* Stopping an alarm.                                                      *)
LEMMA StopIInv ==
  ASSUME IInv, NEW a \in Alarms, alt_alarm_stop(a)
  PROVE  IInv'
<1>1. Types /\ Ring /\ Walk
  BY DEF IInv
<1>2. /\ tick.at \in {"off", "call"} /\ tick' = tick /\ nticks' = nticks
      /\ list.next[a] # Null /\ alarm' = alarm
      /\ list' = alt_llist_remove(list, a)
      /\ due' = [due EXCEPT ![a] = Never]
  BY DEF alt_alarm_stop
<1>3. /\ Ring' /\ Running' = Running \ {a}
      /\ list' \in [next     : [Elements -> Elements \cup {Null}],
                    previous : [Elements -> Elements \cup {Null}]]
      /\ due' \in [Alarms -> Moments \cup {Never}]
      /\ \A b \in Alarms : b # a => due'[b] = due[b]
      /\ list'.next[a] = a
      /\ a \notin Running => list' = list
      /\ \A e \in Elements : list.next[e] # Null => list'.next[e] # Null
  BY <1>1, <1>2, StopEffect
<1>4. Types'
  BY <1>1, <1>2, <1>3 DEF Types
<1>5. \A b \in Alarms : b # a => /\ Settled(b) => Settled(b)'
                                 /\ Unvisited(b) => Unvisited(b)'
                                 /\ Called(b) => Called(b)'
  BY <1>2, <1>3, SameTimes
<1>6. Walk'
  <2>1. CASE tick.at = "off"
    BY <1>1, <1>2, <1>3, <1>5, <2>1 DEF Walk, Running
  <2>2. CASE tick.at = "call"
    <3>1. Position' = Position /\ \A b : Calling(b)' <=> Calling(b)
      BY <1>2 DEF Position, Calling
    <3>2. \A b \in Running \ {Head} : b \in Alarms
      BY DEF Running
    <3>3. /\ \A b \in Running \ {Head} : Timed(b)
          /\ (\E V : Region(V, Position) /\ Past(V)) \/ Stranded(Position)
          /\ InCall
      BY <1>1, <2>2 DEF Walk
    <3>4. \A b \in Running' \ {Head} : Timed(b)'
      BY <1>3, <1>5, <3>1, <3>2, <3>3 DEF Timed
    <3>5. (\E V : Region(V, Position)' /\ Past(V)') \/ Stranded(Position)'
      <4>1. \A b \in Running \ {Head, a} : Past({b}) => Past({b})'
        BY <1>5, <3>1, <3>2 DEF Past
      <4>2. PICK pos : pos = Position
        OBVIOUS
      <4>3. (\E V : Region(V, pos)' /\ Past(V)') \/ Stranded(pos)'
        BY <1>1, <1>2, <1>3, <3>3, <4>1, <4>2, PlaceRemove
      <4>4. QED
        BY <3>1, <4>2, <4>3 DEF Region, Stranded
    <3>6. InCall'
      BY <1>2, <1>3, <2>2, <3>3 DEF InCall, Elements
    <3>7. tick'.at # "off"
      BY <1>2, <2>2
    <3>8. QED
      BY <3>4, <3>5, <3>6, <3>7 DEF Walk
  <2>3. QED
    BY <1>2, <2>1, <2>2
<1>7. QED
  BY <1>3, <1>4, <1>6 DEF IInv

(* A tick: everything settled is now one tick nearer and unvisited.        *)
LEMMA BeginIInv ==
  ASSUME IInv, TickBegins
  PROVE  IInv'
<1>1. Types /\ Ring /\ \A a \in Running \ {Head} : Settled(a)
  BY DEF IInv, Walk, TickBegins
<1>2. /\ nticks' = (nticks + 1) % Modulus /\ list' = list /\ alarm' = alarm
      /\ tick' = [at |-> "walk", alarm |-> list.next[Head], next |-> Head]
      /\ due' = [a \in Alarms |-> IF due[a] = Never THEN Never ELSE due[a] - 1]
  BY DEF TickBegins
<1>3. /\ nticks \in Int /\ 0 <= nticks /\ nticks < Modulus /\ Modulus \in Int
      /\ nticks' = IF nticks + 1 < Modulus THEN nticks + 1 ELSE 0
      /\ nticks' \in Moments
  <2>1. nticks \in Moments /\ 1 \in Moments
    BY <1>1, ClockAssumption DEF Types, Moments
  <2>2. nticks' \in Moments
        /\ nticks' = IF nticks + 1 < Modulus THEN nticks + 1 ELSE (nticks + 1) - Modulus
    BY <1>2, <2>1, CountOn
  <2>3. nticks \in Int /\ 0 <= nticks /\ nticks < Modulus /\ Modulus \in Int
    BY <2>1, ClockAssumption DEF Moments
  <2>4. QED
    BY <2>2, <2>3
<1>4. \A a \in Running \ {Head} :
        /\ a \in Alarms /\ due[a] \in Int /\ 1 <= due[a] /\ due[a] < Modulus
        /\ due'[a] = due[a] - 1
  <2> SUFFICES ASSUME NEW a \in Running \ {Head}
               PROVE  /\ a \in Alarms /\ due[a] \in Int /\ 1 <= due[a] /\ due[a] < Modulus
                      /\ due'[a] = due[a] - 1
    OBVIOUS
  <2>1. a \in Alarms /\ due[a] # Never
    BY DEF Running
  <2>2. due[a] \in Moments
    BY <1>1, <2>1 DEF Types
  <2>3. due[a] >= 1
    BY <1>1 DEF Settled
  <2>4. QED
    BY <1>2, <1>3, <2>1, <2>2, <2>3 DEF Moments
<1>5. \A a \in Alarms \ Running : due'[a] = Never
  BY <1>2 DEF Running
<1>6. due' \in [Alarms -> Moments \cup {Never}]
  <2>1. ASSUME NEW a \in Alarms PROVE due'[a] \in Moments \cup {Never}
    <3>1. CASE a \in Running
      <4>1. a \in Running \ {Head}
        BY <3>1, ClockAssumption
      <4>2. QED
        BY <1>3, <1>4, <4>1 DEF Moments
    <3>2. QED
      BY <1>5, <3>1
  <2>2. due' = [a \in Alarms |-> due'[a]]
    BY <1>2
  <2>3. QED
    BY <2>1, <2>2
<1>7. Running' = Running
  <2>1. ASSUME NEW a \in Alarms PROVE due'[a] # Never <=> due[a] # Never
    <3>1. CASE due[a] = Never
      BY <1>2, <3>1
    <3>2. CASE due[a] # Never
      <4>1. a \in Running \ {Head}
        BY <3>2, ClockAssumption DEF Running
      <4>2. QED
        BY <1>4, <3>2, <4>1 DEF Never
    <3>3. QED
      BY <3>1, <3>2
  <2>2. QED
    BY <2>1 DEF Running
<1>8. list.next[Head] \in Running /\ Head \in Running /\ Running \subseteq Elements
  BY <1>1 DEF Ring, Linked, Running, Elements
<1>9. Types'
  BY <1>1, <1>2, <1>3, <1>6, <1>8 DEF Types
<1>10. Ring'
  BY <1>1, <1>2, <1>7 DEF Ring, Linked, OneRing, Unlinked
<1>11. ASSUME NEW a \in Running \ {Head} PROVE Unvisited(a)'
  <2>1. Ahead(a) /\ alarm' = alarm
    BY <1>1, <1>2, <1>11 DEF Settled
  <2>2. /\ due[a] \in Int /\ 1 <= due[a] /\ due[a] < Modulus /\ due'[a] = due[a] - 1
    BY <1>4, <1>11
  <2>3. CASE nticks + 1 < Modulus
    <3>1. nticks' = nticks + 1 /\ nticks' # 0 /\ nticks' + due'[a] = nticks + due[a]
      BY <1>3, <2>2, <2>3
    <3>2. QED
      BY <2>1, <3>1 DEF Unvisited, Ahead
  <2>4. CASE ~(nticks + 1 < Modulus)
    <3>1. nticks' = 0 /\ nticks + due[a] >= Modulus /\ (nticks + due[a]) - Modulus = due'[a]
      BY <1>3, <2>2, <2>4
    <3>2. alarm[a].rollover /\ alarm[a].time = due'[a]
      BY <1>3, <2>1, <2>2, <3>1 DEF Ahead
    <3>3. QED
      BY <2>1, <3>1, <3>2 DEF Unvisited
  <2>5. QED
    BY <2>3, <2>4
<1>12. Walk'
  <2>1. tick'.at = "walk" /\ Position' = list.next[Head]
    BY <1>2 DEF Position
  <2>2. Region({Head}, Position)'
    BY <1>2, <1>7, <1>8, <2>1 DEF Region
  <2>3. \A a \in Running' \ {Head} : Timed(a)'
    BY <1>7, <1>11, <2>1 DEF Timed, Calling
  <2>4. Past({Head})' /\ InCall'
    BY <2>1 DEF Past, InCall
  <2>5. QED
    BY <2>1, <2>2, <2>3, <2>4 DEF Walk
<1>13. QED
  BY <1>9, <1>10, <1>12 DEF IInv

(* What visiting an alarm does: it is called exactly if it is due.         *)
LEMMA VisitEffect ==
  ASSUME Types, NEW a \in Alarms, nticks' = nticks, due' = due,
         alarm' = [alarm EXCEPT ![a] = Unrolled(@)]
  PROVE  /\ alarm' \in [Alarms -> [time : Moments, rollover : BOOLEAN]]
         /\ \A b \in Alarms : b # a => alarm'[b] = alarm[b]
         /\ due[a] # Never /\ (Unvisited(a) \/ Settled(a)) =>
              IF Expired(Unrolled(alarm[a])) THEN due[a] = 0 /\ Called(a)'
              ELSE Settled(a)'
<1>1. /\ alarm[a] \in [time : Moments, rollover : BOOLEAN]
      /\ nticks \in Moments
  BY DEF Types
<1>2. Unrolled(alarm[a]) = [time |-> alarm[a].time,
                            rollover |-> alarm[a].rollover /\ nticks # 0]
  BY <1>1 DEF Unrolled
<1>3. alarm'[a] = Unrolled(alarm[a]) /\ \A b \in Alarms : b # a => alarm'[b] = alarm[b]
  BY DEF Types
<1>4. Unrolled(alarm[a]) \in [time : Moments, rollover : BOOLEAN]
  BY <1>1, <1>2
<1>5. alarm' \in [Alarms -> [time : Moments, rollover : BOOLEAN]]
  BY <1>3, <1>4 DEF Types
<1>6. /\ alarm'[a].time = alarm[a].time
      /\ alarm'[a].rollover <=> (alarm[a].rollover /\ nticks # 0)
      /\ Expired(Unrolled(alarm[a])) <=> alarm'[a].time <= nticks /\ ~alarm'[a].rollover
  <2> DEFINE u == Unrolled(alarm[a])
  <2>1. u.time = alarm[a].time /\ (u.rollover <=> (alarm[a].rollover /\ nticks # 0))
    <3>1. PICK b \in BOOLEAN : b <=> (alarm[a].rollover /\ nticks # 0)
      OBVIOUS
    <3>2. u = [time |-> alarm[a].time, rollover |-> b]
      BY <1>2, <3>1, Zenon
    <3> HIDE DEF u
    <3>3. u.time = alarm[a].time /\ u.rollover = b
      BY <3>2
    <3>4. QED
      BY <3>1, <3>3
  <2> HIDE DEF u
  <2>2. Expired(u) <=> u.time <= nticks /\ ~u.rollover
    BY DEF Expired
  <2>3. alarm'[a] = u
    BY <1>3 DEF u
  <2>4. QED
    BY <2>1, <2>2, <2>3 DEF u
<1> SUFFICES ASSUME due[a] # Never, Unvisited(a) \/ Settled(a)
             PROVE  IF Expired(Unrolled(alarm[a])) THEN due[a] = 0 /\ Called(a)'
                    ELSE Settled(a)'
  BY <1>3, <1>5
<1>7. /\ nticks \in Int /\ 0 <= nticks /\ nticks < Modulus /\ Modulus \in Int
      /\ due[a] \in Int /\ 0 <= due[a] /\ due[a] < Modulus
  <2>1. due[a] \in Moments
    BY DEF Types
  <2>2. QED
    BY <1>1, <2>1, ClockAssumption DEF Moments
<1>8. CASE nticks = 0
  <2>1. alarm[a].time = due[a]
    BY <1>7, <1>8 DEF Unvisited, Settled, Ahead
  <2>2. ~alarm'[a].rollover /\ alarm'[a].time = due[a]
    BY <1>6, <1>8, <2>1
  <2>3. CASE due[a] = 0
    <3>1. Expired(Unrolled(alarm[a]))
      BY <1>6, <1>8, <2>2, <2>3
    <3>2. Called(a)'
      BY <1>8, <2>2, <2>3 DEF Called
    <3>3. QED
      BY <1>3, <1>5, <2>3, <3>1, <3>2
  <2>4. CASE due[a] # 0
    <3>1. ~(alarm'[a].time <= nticks) /\ due[a] >= 1
      BY <1>7, <1>8, <2>2, <2>4
    <3>2. ~Expired(Unrolled(alarm[a]))
      BY <1>6, <3>1
    <3>3. nticks + due[a] = due[a]
      BY <1>7, <1>8
    <3>4. Settled(a)'
      BY <1>7, <2>2, <3>1, <3>3 DEF Settled, Ahead
    <3>5. QED
      BY <1>3, <1>5, <3>2, <3>4
  <2>5. QED
    BY <2>3, <2>4
<1>9. CASE nticks # 0
  <2>1. Ahead(a) /\ (alarm'[a].rollover <=> alarm[a].rollover)
    BY <1>6, <1>9 DEF Unvisited, Settled
  <2>2. CASE alarm[a].rollover
    <3>1. ~Expired(Unrolled(alarm[a])) /\ nticks + due[a] >= Modulus
      BY <1>6, <2>1, <2>2 DEF Ahead
    <3>2. due[a] >= 1
      BY <1>7, <3>1
    <3>3. Settled(a)'
      BY <1>6, <2>1, <3>2 DEF Settled, Ahead
    <3>4. QED
      BY <1>3, <1>5, <3>1, <3>3
  <2>3. CASE ~alarm[a].rollover
    <3>1. alarm[a].time = nticks + due[a]
      BY <2>1, <2>3 DEF Ahead
    <3>2. CASE due[a] = 0
      <4>1. alarm'[a].time = nticks
        BY <1>6, <1>7, <3>1, <3>2
      <4>2. Expired(Unrolled(alarm[a])) /\ Called(a)'
        BY <1>6, <1>7, <2>1, <2>3, <3>2, <4>1 DEF Called
      <4>3. QED
        BY <1>3, <1>5, <3>2, <4>2
    <3>3. CASE due[a] # 0
      <4>1. due[a] >= 1 /\ ~(alarm'[a].time <= nticks)
        BY <1>6, <1>7, <3>1, <3>3
      <4>2. ~Expired(Unrolled(alarm[a])) /\ Settled(a)'
        BY <1>6, <2>1, <4>1 DEF Settled, Ahead
      <4>3. QED
        BY <1>3, <1>5, <4>2
    <3>4. QED
      BY <3>2, <3>3
  <2>4. QED
    BY <2>2, <2>3
<1>10. QED
  BY <1>8, <1>9

(* The walk visits an alarm.                                               *)
LEMMA WalksIInv ==
  ASSUME IInv, TickWalks
  PROVE  IInv' /\ (tick'.at = "call" => due[tick.alarm] \in {0, Never})
<1>0. PICK a : a = tick.alarm
  OBVIOUS
<1>1. Types /\ Ring /\ Walk
  BY DEF IInv
<1>2. /\ tick.at = "walk" /\ a # Head
      /\ alarm' = [alarm EXCEPT ![a] = Unrolled(@)]
      /\ tick' = IF Expired(Unrolled(alarm[a]))
                 THEN [tick EXCEPT !.at = "call", !.next = list.next[a]]
                 ELSE [tick EXCEPT !.alarm = list.next[a]]
      /\ nticks' = nticks /\ list' = list /\ due' = due
  BY <1>0 DEF TickWalks
<1>3. a \in Alarms /\ Null \notin Elements
  BY <1>0, <1>1, <1>2, ClockAssumption DEF Types, Elements
<1>4. /\ \A b \in Running \ {Head} : b \in Alarms /\ due[b] # Never
      /\ Running \subseteq Elements /\ Running' = Running
      /\ a \notin Running => due[a] = Never
  BY <1>2, <1>3 DEF Running, Elements
<1>5. /\ \A b \in Running \ {Head} : Unvisited(b) \/ Settled(b)
      /\ (\E V : Region(V, a) /\ Past(V)) \/ Stranded(a)
  BY <1>0, <1>1, <1>2 DEF Walk, Timed, Calling, Position
<1>6. /\ alarm' \in [Alarms -> [time : Moments, rollover : BOOLEAN]]
      /\ \A b \in Alarms : b # a => alarm'[b] = alarm[b]
      /\ a \in Running => IF Expired(Unrolled(alarm[a])) THEN due[a] = 0 /\ Called(a)'
                          ELSE Settled(a)'
  BY <1>1, <1>2, <1>3, <1>4, <1>5, VisitEffect
<1>7. PICK m : m = list.next[a]
  OBVIOUS
<1>8. /\ m \in Elements /\ m # Null
      /\ Stranded(a) => m = a
  <2>1. CASE a \in Running
    BY <1>1, <1>2, <1>3, <1>7, <2>1, LinkedToOthers DEF Stranded
  <2>2. CASE a \notin Running
    <3>1. Stranded(a)
      BY <1>5, <2>2 DEF Region
    <3>2. QED
      BY <1>3, <1>7, <3>1 DEF Stranded, Elements
  <2>3. QED
    BY <2>1, <2>2
<1>9. Types'
  <2>1. tick' \in [at : {"off", "walk", "call"}, alarm : Elements, next : Elements]
    BY <1>1, <1>2, <1>7, <1>8 DEF Types
  <2>2. QED
    BY <1>1, <1>2, <1>6, <2>1 DEF Types
<1>10. Ring'
  BY <1>1, <1>2, <1>4 DEF Ring, Linked, OneRing, Unlinked
<1>11. \A b \in Alarms : b # a => /\ Settled(b) => Settled(b)'
                                  /\ Unvisited(b) => Unvisited(b)'
  BY <1>2, <1>6, SameTimes
<1>12. /\ tick'.at # "off" /\ Position' = m
       /\ \A b : Calling(b)' <=> b = a /\ Expired(Unrolled(alarm[a]))
       /\ tick'.at = "call" => tick'.alarm = a /\ Expired(Unrolled(alarm[a]))
  <2>1. CASE Expired(Unrolled(alarm[a]))
    <3>1. tick'.at = "call" /\ tick'.alarm = a /\ tick'.next = m
      BY <1>0, <1>1, <1>2, <1>7, <2>1 DEF Types
    <3>2. QED
      BY <2>1, <3>1 DEF Position, Calling
  <2>2. CASE ~Expired(Unrolled(alarm[a]))
    <3>1. tick'.at = "walk" /\ tick'.alarm = m
      BY <1>1, <1>2, <1>7, <2>2 DEF Types
    <3>2. QED
      BY <2>2, <3>1 DEF Position, Calling
  <2>3. QED
    BY <2>1, <2>2
<1>13. \A b \in Running' \ {Head} : Timed(b)'
  <2>1. \A b \in Running \ {Head} : b # a => Timed(b)'
    BY <1>4, <1>5, <1>11, <1>12 DEF Timed
  <2>2. a \in Running => Timed(a)'
    BY <1>6, <1>12 DEF Timed
  <2>3. QED
    BY <1>4, <2>1, <2>2
<1>14. (\E V : Region(V, m)' /\ Past(V)') \/ Stranded(m)'
  <2>1. ASSUME NEW V, Region(V, a), Past(V)
        PROVE  Region(V \cup {a}, m)' /\ Past(V \cup {a})'
    <3>1. Region(V \cup {a}, m)
      BY <1>1, <1>2, <1>7, <2>1, RegionGrows
    <3>2. Region(V \cup {a}, m)'
      BY <1>2, <1>4, <3>1 DEF Region
    <3>3. a \in Running /\ V \subseteq Running /\ a \notin V
      BY <1>2, <2>1 DEF Region
    <3>4. \A b \in V \ {Head} : b # a /\ b \in Alarms /\ Settled(b)
      BY <1>2, <1>4, <2>1, <3>3 DEF Past, Calling
    <3>5. Settled(a)' \/ Calling(a)'
      BY <1>6, <1>12, <3>3
    <3>6. QED
      BY <1>11, <3>2, <3>4, <3>5 DEF Past
  <2>2. ASSUME Stranded(a) PROVE Stranded(m)'
    BY <1>2, <1>4, <1>8, <2>2 DEF Stranded
  <2>3. QED
    BY <1>5, <2>1, <2>2
<1>15. InCall'
  BY <1>2, <1>3, <1>7, <1>8, <1>12 DEF InCall
<1>16. Walk'
  <2>1. (\E V : Region(V, Position)' /\ Past(V)') \/ Stranded(Position)'
    BY <1>12, <1>14 DEF Region, Stranded
  <2>2. QED
    BY <1>12, <1>13, <1>15, <2>1 DEF Walk
<1>17. tick'.at = "call" => due[a] \in {0, Never}
  BY <1>4, <1>6, <1>12
<1>18. QED
  BY <1>0, <1>9, <1>10, <1>16, <1>17 DEF IInv

(* A callback that asks for another call: if its alarm is still running,   *)
(* it is settled again.                                                    *)
LEMMA CalledAgain ==
  ASSUME Types, NEW a \in Alarms, NEW p \in Periods, nticks' = nticks,
         a \in Running => Called(a) \/ Settled(a), WithinATurn(a, p),
         alarm' = [alarm EXCEPT ![a] =
                     [time |-> (alarm[a].time + p) % Modulus,
                      rollover |-> @.rollover \/ (alarm[a].time + p) % Modulus < nticks]],
         due' = [due EXCEPT ![a] = IF @ = Never THEN Never ELSE @ + p]
  PROVE  /\ alarm' \in [Alarms -> [time : Moments, rollover : BOOLEAN]]
         /\ due' \in [Alarms -> Moments \cup {Never}]
         /\ Running' = Running
         /\ \A b \in Alarms : b # a => alarm'[b] = alarm[b] /\ due'[b] = due[b]
         /\ a \in Running => Settled(a)'
<1>1. p \in Moments /\ p >= 1 /\ p # Never /\ nticks \in Moments
  BY ClockAssumption DEF Types, Moments, Never
<1>2. alarm[a].time \in Moments /\ alarm[a].rollover \in BOOLEAN
  BY DEF Types
<1>3. PICK t : t = (alarm[a].time + p) % Modulus
  OBVIOUS
<1>4. t \in Moments
  BY <1>1, <1>2, <1>3, CountOn
<1>5. PICK r \in BOOLEAN : r <=> (alarm[a].rollover \/ t < nticks)
  OBVIOUS
<1>6. alarm' = [alarm EXCEPT ![a] = [time |-> t, rollover |-> r]]
  <2>1. r = (alarm[a].rollover \/ t < nticks)
    BY <1>2, <1>5
  <2>2. QED
    BY <1>3, <2>1, Zenon
<1>7. /\ alarm' \in [Alarms -> [time : Moments, rollover : BOOLEAN]]
      /\ alarm'[a].time = t /\ alarm'[a].rollover = r
      /\ \A b \in Alarms : b # a => alarm'[b] = alarm[b]
  BY <1>4, <1>6 DEF Types
<1>8. due[a] # Never =>
        /\ due[a] \in Int /\ 0 <= due[a] /\ p \in Int /\ due[a] + p < Modulus
        /\ due[a] + p \in Moments /\ due[a] + p >= 1 /\ due[a] + p # Never
  <2> SUFFICES ASSUME due[a] # Never
               PROVE  /\ due[a] \in Int /\ 0 <= due[a] /\ p \in Int /\ due[a] + p < Modulus
                      /\ due[a] + p \in Moments /\ due[a] + p >= 1 /\ due[a] + p # Never
    OBVIOUS
  <2>1. due[a] \in Moments /\ due[a] + p < Modulus
    BY DEF Types, WithinATurn
  <2>2. QED
    BY <1>1, <2>1, ClockAssumption DEF Moments, Never
<1>9. /\ due' \in [Alarms -> Moments \cup {Never}]
      /\ due'[a] = IF due[a] = Never THEN Never ELSE due[a] + p
      /\ \A b \in Alarms : b # a => due'[b] = due[b]
  BY <1>8 DEF Types
<1>10. Running' = Running
  BY <1>8, <1>9 DEF Running
<1>11. ASSUME a \in Running PROVE Settled(a)'
  <2>1. due[a] # Never /\ due'[a] = due[a] + p
    BY <1>9, <1>11, ClockAssumption DEF Running
  <2>2. PICK d \in Moments : d = due[a] + p /\ d >= 1
    BY <1>8, <2>1
  <2>3. /\ nticks \in Int /\ 0 <= nticks /\ nticks < Modulus /\ Modulus \in Int
        /\ due[a] \in Int /\ 0 <= due[a] /\ p \in Int /\ p >= 1 /\ due[a] + p < Modulus
    BY <1>1, <1>8, <2>1, ClockAssumption DEF Moments
  <2>4. CASE alarm[a].rollover
    <3>1. nticks + due[a] >= Modulus /\ alarm[a].time = (nticks + due[a]) - Modulus
      BY <1>11, <2>4 DEF Called, Settled, Ahead
    <3>2. alarm[a].time + p < Modulus /\ alarm[a].time + p = (nticks + d) - Modulus
      BY <2>2, <2>3, <3>1
    <3>3. t = alarm[a].time + p
      BY <1>1, <1>2, <1>3, <3>2, CountOn
    <3>4. alarm'[a].rollover /\ alarm'[a].time = (nticks + d) - Modulus
      BY <1>5, <1>7, <2>4, <3>2, <3>3
    <3>5. nticks + d >= Modulus
      BY <2>2, <2>3, <3>1
    <3>6. QED
      BY <2>1, <2>2, <3>4, <3>5 DEF Settled, Ahead
  <2>5. CASE ~alarm[a].rollover
    <3>1. alarm[a].time = nticks + due[a]
      BY <1>11, <2>3, <2>5 DEF Called, Settled, Ahead
    <3>2. alarm[a].time + p = nticks + d
      BY <2>2, <2>3, <3>1
    <3>3. /\ alarm'[a].time = (nticks + d) % Modulus
          /\ alarm'[a].rollover <=> alarm'[a].time < nticks
      BY <1>3, <1>5, <1>7, <2>5, <3>2
    <3>4. QED
      BY <1>1, <2>1, <2>2, <3>3, SetAhead
  <2>6. QED
    BY <2>4, <2>5
<1>12. QED
  BY <1>7, <1>9, <1>10, <1>11

(* A callback returns, and the walk goes on with what it read before.      *)
LEMMA EndsIInv ==
  ASSUME IInv, CallbackEnds
  PROVE  IInv'
<1>0. PICK a, pos : a = tick.alarm /\ pos = tick.next
  OBVIOUS
<1>1. Types /\ Ring /\ Walk
  BY DEF IInv
<1>2. /\ tick.at = "call" /\ nticks' = nticks
      /\ tick'.at = "walk" /\ tick'.alarm = pos /\ tick'.next = Head
      /\ tick' = [at |-> "walk", alarm |-> pos, next |-> Head]
  BY <1>0 DEF CallbackEnds, After
<1>3. /\ \A b \in Running \ {Head} : Timed(b)
      /\ (\E V : Region(V, pos) /\ Past(V)) \/ Stranded(pos)
      /\ a \in Alarms /\ list.next[a] # Null /\ a # Head
  BY <1>0, <1>1, <1>2, ClockAssumption DEF Walk, Position, InCall
<1>4. \A b : /\ Calling(b) <=> b = a
             /\ ~Calling(b)'
  BY <1>0, <1>2 DEF Calling
<1>5. /\ \A b \in Running \ {Head} : b \in Alarms
      /\ \A b \in Running \ {Head} : b # a => Unvisited(b) \/ Settled(b)
      /\ a \in Running => Called(a) \/ Settled(a)
  BY <1>3, <1>4 DEF Running, Timed
<1>6. pos \in Elements /\ tick' \in [at : {"off", "walk", "call"}, alarm : Elements, next : Elements]
  BY <1>0, <1>1, <1>2 DEF Types, Elements
<1>7. InCall' /\ Position' = pos
  BY <1>2 DEF InCall, Position
<1>8. ASSUME Types', Ring', \A b \in Running' \ {Head} : Unvisited(b)' \/ Settled(b)',
             (\E V : Region(V, pos)' /\ Past(V)') \/ Stranded(pos)'
      PROVE  IInv'
  <2>1. \A b \in Running' \ {Head} : Timed(b)'
    BY <1>4, <1>8 DEF Timed
  <2>2. (\E V : Region(V, Position)' /\ Past(V)') \/ Stranded(Position)'
    BY <1>7, <1>8 DEF Region, Stranded
  <2>3. QED
    BY <1>2, <1>7, <1>8, <2>1, <2>2 DEF IInv, Walk
<1>10. CASE /\ list' = alt_llist_remove(list, a)
            /\ due' = [due EXCEPT ![a] = Never]
            /\ alarm' = alarm
  <2>1. /\ Ring' /\ Running' = Running \ {a}
        /\ list' \in [next     : [Elements -> Elements \cup {Null}],
                      previous : [Elements -> Elements \cup {Null}]]
        /\ due' \in [Alarms -> Moments \cup {Never}]
        /\ \A b \in Alarms : b # a => due'[b] = due[b]
        /\ list'.next[a] = a
        /\ a \notin Running => list' = list
        /\ \A e \in Elements : list.next[e] # Null => list'.next[e] # Null
    BY <1>1, <1>3, <1>10, StopEffect
  <2>2. Types'
    BY <1>1, <1>2, <1>6, <1>10, <2>1 DEF Types
  <2>3. \A b \in Alarms : b # a => /\ Settled(b) => Settled(b)'
                                   /\ Unvisited(b) => Unvisited(b)'
    BY <1>2, <1>10, <2>1, SameTimes
  <2>4. \A b \in Running' \ {Head} : Unvisited(b)' \/ Settled(b)'
    BY <1>5, <2>1, <2>3
  <2>5. \A b \in Running \ {Head, a} : Past({b}) => Past({b})'
    BY <1>4, <1>5, <2>3 DEF Past
  <2>6. (\E V : Region(V, pos)' /\ Past(V)') \/ Stranded(pos)'
    BY <1>1, <1>3, <1>10, <2>1, <2>5, PlaceRemove
  <2>7. QED
    BY <1>8, <2>1, <2>2, <2>4, <2>6
<1>11. ASSUME NEW p \in Periods, list' = list, WithinATurn(a, p),
              alarm' = [alarm EXCEPT ![a] =
                          [time |-> (alarm[a].time + p) % Modulus,
                           rollover |-> @.rollover \/ (alarm[a].time + p) % Modulus < nticks]],
              due' = [due EXCEPT ![a] = IF @ = Never THEN Never ELSE @ + p]
       PROVE  IInv'
  <2>1. /\ alarm' \in [Alarms -> [time : Moments, rollover : BOOLEAN]]
        /\ due' \in [Alarms -> Moments \cup {Never}]
        /\ Running' = Running
        /\ \A b \in Alarms : b # a => alarm'[b] = alarm[b] /\ due'[b] = due[b]
        /\ a \in Running => Settled(a)'
    BY <1>1, <1>2, <1>3, <1>5, <1>11, CalledAgain
  <2>2. Types'
    BY <1>1, <1>2, <1>6, <1>11, <2>1 DEF Types
  <2>3. Ring'
    BY <1>1, <1>11, <2>1 DEF Ring, Linked, OneRing, Unlinked
  <2>4. \A b \in Alarms : b # a => /\ Settled(b) => Settled(b)'
                                   /\ Unvisited(b) => Unvisited(b)'
    BY <1>2, <2>1, SameTimes
  <2>5. \A b \in Running' \ {Head} : Unvisited(b)' \/ Settled(b)'
    BY <1>5, <2>1, <2>4
  <2>6. ASSUME NEW V, Region(V, pos), Past(V)
        PROVE  Region(V, pos)' /\ Past(V)'
    <3>1. Region(V, pos)'
      BY <1>11, <2>1, <2>6 DEF Region
    <3>2. V \subseteq Running /\ \A b \in V \ {Head} : b # a => Settled(b)
      BY <1>4, <2>6 DEF Region, Past
    <3>3. Past(V)'
      BY <1>5, <2>1, <2>4, <3>2 DEF Past
    <3>4. QED
      BY <3>1, <3>3
  <2>7. Stranded(pos) => Stranded(pos)'
    BY <1>11, <2>1 DEF Stranded
  <2>8. (\E V : Region(V, pos)' /\ Past(V)') \/ Stranded(pos)'
    BY <1>3, <2>6, <2>7
  <2>9. QED
    BY <1>8, <2>2, <2>3, <2>5, <2>8
<1>12. QED
  BY <1>0, <1>10, <1>11 DEF CallbackEnds

(* The walk ends at the head, with every running alarm settled.            *)
LEMMA ReturnsIInv ==
  ASSUME IInv, TickReturns
  PROVE  IInv' /\ \A a \in Alarms : due[a] # 0
<1>1. Types /\ Ring /\ Walk
  BY DEF IInv
<1>2. /\ tick.at = "walk" /\ tick.alarm = Head /\ tick' = Idle
      /\ nticks' = nticks /\ list' = list /\ alarm' = alarm /\ due' = due
  BY DEF TickReturns
<1>3. PICK V : Region(V, Head) /\ Past(V)
  BY <1>1, <1>2, ClockAssumption DEF Walk, Position, Stranded
<1>4. V = Running
  BY <1>1, <1>3, RegionEnds
<1>5. \A a \in Running \ {Head} : Settled(a)
  BY <1>2, <1>3, <1>4 DEF Past, Calling
<1>6. Types' /\ tick'.at = "off"
  BY <1>1, <1>2 DEF Types, Idle, Elements
<1>7. Running' = Running
  BY <1>2 DEF Running
<1>8. Ring'
  BY <1>1, <1>2, <1>7 DEF Ring, Linked, OneRing, Unlinked
<1>9. Walk'
  BY <1>2, <1>5, <1>6, <1>7 DEF Walk, Settled, Ahead
<1>10. ASSUME NEW a \in Alarms PROVE due[a] # 0
  <2>1. CASE a \in Running
    <3>1. due[a] >= 1
      BY <1>5, <2>1, ClockAssumption DEF Settled
    <3>2. QED
      BY <3>1
  <2>2. CASE a \notin Running
    BY <2>2 DEF Running, Never
  <2>3. QED
    BY <2>1, <2>2
<1>11. QED
  BY <1>6, <1>8, <1>9, <1>10 DEF IInv

(* Steps that leave the alarms alone.                                      *)
LEMMA OtherIInv ==
  ASSUME IInv, UNCHANGED <<nticks, list, alarm, tick, due>>
  PROVE  IInv'
<1>1. Running' = Running
  BY DEF Running
<1>2. Types' /\ Ring'
  BY <1>1 DEF IInv, Types, Ring, Linked, OneRing, Unlinked
<1>3. Walk'
  BY <1>1 DEF IInv, Walk, Region, Timed, Past, Stranded, InCall, Position,
     Calling, Settled, Unvisited, Called, Ahead
<1>4. QED
  BY <1>2, <1>3 DEF IInv

(* The invariant holds at first.                                           *)
LEMMA InitIInv == Init => IInv
<1> SUFFICES ASSUME Init PROVE IInv
  OBVIOUS
<1>1. /\ nticks = 0 /\ tick = Idle
      /\ list.next = [e \in Elements |-> IF e = Head THEN Head ELSE Null]
      /\ list.previous = [e \in Elements |-> IF e = Head THEN Head ELSE Null]
      /\ list = [next |-> list.next, previous |-> list.previous]
      /\ alarm = [a \in Alarms |-> [time |-> 0, rollover |-> FALSE]]
      /\ due = [a \in Alarms |-> Never]
  BY DEF Init, Elements
<1>2. 0 \in Moments /\ Head \in Elements
  BY ClockAssumption DEF Moments, Elements
<1>3. Types
  BY <1>1, <1>2 DEF Types, Idle
<1>4. Running = {Head}
  BY <1>1 DEF Running
<1>5. /\ list.next[Head] = Head /\ list.previous[Head] = Head
      /\ \A a \in Alarms : list.next[a] = Null /\ list.previous[a] = Null
  BY <1>1, <1>2, ClockAssumption DEF Elements
<1>6. Ring
  BY <1>4, <1>5 DEF Ring, Linked, OneRing, Unlinked
<1>7. Walk
  BY <1>1, <1>4 DEF Walk, Idle
<1>8. QED
  BY <1>3, <1>6, <1>7 DEF IInv

(* Every step keeps it, and calls and returns are on time.                 *)
LEMMA StepIInv ==
  ASSUME IInv, [Next]_vars
  PROVE  /\ IInv'
         /\ (tick.at = "walk" /\ tick'.at = "call") => due[tick.alarm] \in {0, Never}
         /\ (tick.at = "walk" /\ tick'.at = "off") => \A a \in Alarms : due[a] # 0
<1>1. CASE TickBegins
  BY <1>1, BeginIInv DEF TickBegins
<1>2. CASE TickWalks
  <2>1. tick'.at # "off"
    BY <1>2 DEF TickWalks, IInv, Types
  <2>2. QED
    BY <1>2, <2>1, WalksIInv
<1>3. CASE CallbackEnds
  BY <1>3, EndsIInv DEF CallbackEnds
<1>4. CASE TickReturns
  BY <1>4, ReturnsIInv DEF TickReturns, Idle
<1>5. ASSUME NEW a \in Alarms, alt_alarm_stop(a)
      PROVE  IInv' /\ tick' = tick
  BY <1>5, StopIInv DEF alt_alarm_stop
<1>6. ASSUME NEW a \in Alarms, NEW n \in Delays, alt_alarm_start(a, n)
      PROVE  IInv' /\ tick' = tick
  BY <1>6, StartIInv DEF alt_alarm_start
<1>7. CASE UNCHANGED <<nticks, list, alarm, tick, due>>
  BY <1>7, OtherIInv
<1>8. CASE alt_sysclk_init
  BY <1>7, <1>8 DEF alt_sysclk_init
<1>9. CASE \E t \in Times : alt_settimeofday(t)
  BY <1>7, <1>9 DEF alt_settimeofday
<1>10. CASE UNCHANGED vars
  BY <1>7, <1>10 DEF vars
<1>11. QED
  BY <1>1, <1>2, <1>3, <1>4, <1>5, <1>6, <1>8, <1>9, <1>10 DEF Next, Tick

(* The invariant of the alarms.                                            *)
THEOREM ClockInvariant == Spec => []IInv
<1>1. IInv /\ [Next]_vars => IInv'
  BY StepIInv
<1>2. QED
  BY <1>1, InitIInv, PTL DEF Spec

(* The list is one ring of the running alarms in every state, also in the  *)
(* middle of a walk whose callbacks start and stop alarms.                 *)
THEOREM RingIsKept == Spec => []RingOfRunning
<1>1. IInv => RingOfRunning
  BY DEF IInv, Ring, Linked, OneRing, RingOfRunning, Running
<1>2. Spec => []IInv
  BY ClockInvariant
<1>3. QED
  BY <1>1, <1>2, PTL

(* No alarm is called early and none is passed over, for every width of    *)
(* the counter, across each of its wraps, and whatever the callbacks start *)
(* and stop.                                                               *)
THEOREM AlarmsAreOnTime == Spec => CalledOnTime
<1>1. IInv /\ [Next]_vars =>
        [/\ (tick.at = "walk" /\ tick'.at = "call") => due[tick.alarm] \in {0, Never}
         /\ (tick.at = "walk" /\ tick'.at = "off") => \A a \in Alarms : due[a] # 0]_vars
  BY StepIInv
<1>2. Spec => []IInv
  BY ClockInvariant
<1>3. QED
  BY <1>1, <1>2, PTL DEF Spec, CalledOnTime
-----------------------------------------------------------------------------
(* The time of day.                                                        *)

(* Quotient and remainder are unique.                                      *)
LEMMA Remainder ==
  ASSUME NEW w \in Nat \ {0}, NEW q \in Int, NEW r \in 0 .. w - 1
  PROVE  (w * q + r) % w = r /\ (w * q + r) \div w = q
<1> DEFINE p == (w * q + r) \div w
           s == (w * q + r) % w
<1>1. p \in Int /\ s \in 0 .. w - 1 /\ w * q + r = w * p + s
  OBVIOUS
<1> HIDE DEF p, s
<1>2. w * (q - p) = s - r
  BY <1>1
<1>3. ~(q - p >= 1)
  <2> SUFFICES ASSUME q - p >= 1 PROVE FALSE
    OBVIOUS
  <2>1. w * (q - p) >= w * 1
    BY <1>1
  <2>2. QED
    BY <1>1, <1>2, <2>1
<1>4. ~(p - q >= 1)
  <2> SUFFICES ASSUME p - q >= 1 PROVE FALSE
    OBVIOUS
  <2>1. w * (p - q) >= w * 1
    BY <1>1
  <2>2. w * (p - q) = r - s
    BY <1>1
  <2>3. QED
    BY <1>1, <2>1, <2>2
<1>5. p = q
  BY <1>1, <1>3, <1>4
<1>6. s = r
  BY <1>1, <1>5
<1>7. QED
  BY <1>5, <1>6 DEF p, s

(* Quotient and remainder make up the number.                              *)
LEMMA Division ==
  ASSUME NEW x \in Nat, NEW w \in Nat \ {0}
  PROVE  x \div w \in Int /\ x % w \in Int /\ (x \div w) * w + (x % w) = x
<1>1. x \div w \in Int /\ x % w \in Int /\ x = w * (x \div w) + (x % w)
  OBVIOUS
<1>2. QED
  BY <1>1

(* Whole seconds counted from n0 to n ticks, and parts of a second that    *)
(* are anything, stay within two seconds of the ticks that have passed.    *)
LEMMA WithinTwoSeconds ==
  ASSUME NEW r \in Nat \ {0}, NEW U \in Nat \ {0}, NEW n \in Nat, NEW n0 \in Nat,
         NEW f \in 0 .. U - 1, NEW g \in 0 .. U - 1, NEW e \in Int,
         e = ((n \div r) - (n0 \div r)) * U + (g - f)
  PROVE  /\ -(2 * r * U) < r * e - (n - n0) * U
         /\ r * e - (n - n0) * U < 2 * r * U
<1>1. PICK a \in Int, c \in 0 .. r - 1 : a = n \div r /\ n = r * a + c
  <2>1. n \div r \in Int /\ n % r \in 0 .. r - 1 /\ n = r * (n \div r) + (n % r)
    OBVIOUS
  <2>2. QED
    BY <2>1
<1>2. PICK b \in Int, d \in 0 .. r - 1 : b = n0 \div r /\ n0 = r * b + d
  <2>1. n0 \div r \in Int /\ n0 % r \in 0 .. r - 1 /\ n0 = r * (n0 \div r) + (n0 % r)
    OBVIOUS
  <2>2. QED
    BY <2>1
<1>3. PICK k \in Int : k = a - b
  OBVIOUS
<1>4. PICK m \in Int : m = k * U
  OBVIOUS
<1>5. r * e = r * m + r * (g - f)
  <2>1. PICK h \in Int : h = g - f
    OBVIOUS
  <2>2. e = m + h
    BY <1>1, <1>2, <1>3, <1>4, <2>1
  <2>3. r * (m + h) = r * m + r * h
    OBVIOUS
  <2>4. QED
    BY <2>1, <2>2, <2>3
<1>6. (n - n0) * U = r * m + (c - d) * U
  <2>1. n - n0 = r * k + (c - d)
    BY <1>1, <1>2, <1>3
  <2>2. (r * k + (c - d)) * U = (r * k) * U + (c - d) * U
    OBVIOUS
  <2>3. (r * k) * U = r * m
    BY <1>4
  <2>4. QED
    BY <2>1, <2>2, <2>3
<1>7. /\ r * (g - f) \in Int /\ r * (g - f) <= r * U - r /\ r * (g - f) >= r - r * U
      /\ (c - d) * U \in Int /\ (c - d) * U <= r * U - U /\ (c - d) * U >= U - r * U
      /\ r * U \in Int /\ r * m \in Int /\ 2 * r * U = 2 * (r * U)
  <2>1. g - f <= U - 1 /\ g - f >= 1 - U /\ c - d <= r - 1 /\ c - d >= 1 - r
    BY <1>1, <1>2
  <2>2. r * (g - f) <= r * (U - 1) /\ r * (g - f) >= r * (1 - U)
    BY <2>1
  <2>3. (c - d) * U <= (r - 1) * U /\ (c - d) * U >= (1 - r) * U
    BY <2>1
  <2>4. /\ r * (U - 1) = r * U - r /\ r * (1 - U) = r - r * U
        /\ (r - 1) * U = r * U - U /\ (1 - r) * U = U - r * U
    OBVIOUS
  <2>5. QED
    BY <2>2, <2>3, <2>4
<1>8. r * e - (n - n0) * U = r * (g - f) - (c - d) * U
  <2>1. PICK x \in Int, y \in Int, z \in Int : x = r * (g - f) /\ y = (c - d) * U /\ z = r * m
    BY <1>7
  <2>2. r * e = z + x /\ (n - n0) * U = z + y
    BY <1>5, <1>6, <2>1
  <2>3. QED
    BY <2>1, <2>2
<1>9. QED
  BY <1>7, <1>8

(* While the time of day stands, what it was reset to is the time set less *)
(* the whole seconds counted before, and less some part of a second.       *)
ResetInv ==
  /\ nticks \in Moments /\ rate \in {0} \cup Rates
  /\ resettime \in [tv_sec : Int, tv_usec : Int]
  /\ wall = Lost \/ wall \in [base : Nat, ticks : Nat]
  /\ rate = 0 => /\ nticks = 0 /\ wall = [base |-> 0, ticks |-> 0]
                 /\ resettime = [tv_sec |-> 0, tv_usec |-> 0]
  /\ wall # Lost /\ rate # 0 =>
       /\ wall.ticks <= nticks
       /\ \E f \in 0 .. ALT_US - 1 :
            resettime.tv_sec * ALT_US + resettime.tv_usec
              = (wall.base - ((nticks - wall.ticks) \div rate) * ALT_US) - f

(* The numbers the time of day is computed from.                           *)
LEMMA RatesAndTicks ==
  ASSUME ResetInv, rate # 0
  PROVE  rate \in Nat \ {0} /\ ALT_US \in Nat \ {0} /\ nticks \in Nat /\ Modulus \in Nat \ {0}
  BY ClockAssumption DEF ResetInv, Moments

(* Setting the time of day.                                                *)
LEMMA SetsTime ==
  ASSUME ResetInv, NEW t \in Times, alt_settimeofday(t)
  PROVE  ResetInv'
<1>1. /\ rate # 0 /\ rate' = rate /\ nticks' = nticks
      /\ wall' = [base |-> t, ticks |-> 0]
      /\ resettime' = ResetTime(t)
  BY DEF alt_settimeofday
<1>2. /\ rate \in Nat \ {0} /\ ALT_US \in Nat \ {0} /\ nticks \in Nat /\ Modulus \in Nat \ {0}
      /\ t \in Nat
  BY <1>1, RatesAndTicks, ClockAssumption
<1>3. PICK x \in 0 .. ALT_US - 1 :
        x = ((nticks * (ALT_US \div rate)) % Modulus) % ALT_US
  <2>1. PICK U \in Nat \ {0}, r \in Nat \ {0}, n \in Nat, w \in Nat \ {0} :
          U = ALT_US /\ r = rate /\ n = nticks /\ w = Modulus
    BY <1>2
  <2>2. PICK R \in Nat : R = U \div r
    OBVIOUS
  <2>3. PICK m \in Nat : m = n * R
    OBVIOUS
  <2>4. m % w \in Nat
    OBVIOUS
  <2>5. (m % w) % U \in 0 .. U - 1
    BY <2>4
  <2>6. QED
    BY <2>1, <2>2, <2>3, <2>5
<1> DEFINE a == t \div ALT_US
           b == nticks \div rate
           c == t % ALT_US
<1>4. a \in Int /\ c \in Int /\ a * ALT_US + c = t
  BY <1>2, Division
<1>5. b \in Int
  BY <1>2
<1>6. resettime' = [tv_sec |-> a - b, tv_usec |-> c - x]
  BY <1>1, <1>3 DEF ResetTime
<1>7. wall' \in [base : Nat, ticks : Nat] /\ wall'.base = t /\ wall'.ticks = 0
  BY <1>1, <1>2
<1>8. (nticks' - wall'.ticks) \div rate' = b
  <2>1. nticks' - wall'.ticks = nticks
    BY <1>1, <1>2, <1>7
  <2>2. QED
    BY <1>1, <2>1
<1> HIDE DEF a, b, c
<1>9. /\ resettime' \in [tv_sec : Int, tv_usec : Int]
      /\ resettime'.tv_sec * ALT_US + resettime'.tv_usec = (t - b * ALT_US) - x
  <2>1. resettime'.tv_sec = a - b /\ resettime'.tv_usec = c - x
    BY <1>6
  <2>2. (a - b) * ALT_US = a * ALT_US - b * ALT_US
    BY <1>2, <1>4, <1>5
  <2>3. a * ALT_US \in Int /\ b * ALT_US \in Int
    BY <1>2, <1>4, <1>5
  <2>4. QED
    BY <1>2, <1>3, <1>4, <1>5, <1>6, <2>1, <2>2, <2>3
<1>10. wall'.ticks <= nticks'
  BY <1>1, <1>2, <1>7
<1>11. \E f \in 0 .. ALT_US - 1 :
         resettime'.tv_sec * ALT_US + resettime'.tv_usec
           = (wall'.base - ((nticks' - wall'.ticks) \div rate') * ALT_US) - f
  BY <1>3, <1>7, <1>8, <1>9
<1>12. QED
  BY <1>1, <1>7, <1>9, <1>10, <1>11 DEF ResetInv

(* A tick moves the counter and the ticks since together, until it wraps.  *)
LEMMA TicksTime ==
  ASSUME ResetInv, TickBegins
  PROVE  ResetInv'
<1>1. /\ rate # 0 /\ rate' = rate /\ resettime' = resettime
      /\ nticks' = (nticks + 1) % Modulus
      /\ wall' = IF wall = Lost \/ nticks' = 0 THEN Lost ELSE [wall EXCEPT !.ticks = @ + 1]
  BY DEF TickBegins
<1>2. 1 \in Moments /\ nticks \in Moments /\ nticks \in Int /\ Modulus \in Int
      /\ nticks < Modulus /\ 0 <= nticks
  BY ClockAssumption DEF ResetInv, Moments
<1>3. /\ nticks' \in Moments
      /\ nticks' = IF nticks + 1 < Modulus THEN nticks + 1 ELSE (nticks + 1) - Modulus
  BY <1>1, <1>2, CountOn
<1>4. CASE wall = Lost \/ nticks' = 0
  BY <1>1, <1>3, <1>4 DEF ResetInv
<1>5. CASE wall # Lost /\ nticks' # 0
  <2>1. wall \in [base : Nat, ticks : Nat] /\ wall.ticks <= nticks
    BY <1>1, <1>5 DEF ResetInv
  <2>2. /\ wall' \in [base : Nat, ticks : Nat]
        /\ wall'.base = wall.base /\ wall'.ticks = wall.ticks + 1
    BY <1>1, <1>5, <2>1
  <2>3. nticks' = nticks + 1
    BY <1>2, <1>3, <1>5
  <2>4. wall'.ticks <= nticks' /\ nticks' - wall'.ticks = nticks - wall.ticks
    BY <1>2, <2>1, <2>2, <2>3
  <2>5. \E f \in 0 .. ALT_US - 1 :
          resettime'.tv_sec * ALT_US + resettime'.tv_usec
            = (wall'.base - ((nticks' - wall'.ticks) \div rate') * ALT_US) - f
    BY <1>1, <1>5, <2>2, <2>4 DEF ResetInv
  <2>6. QED
    BY <1>1, <1>3, <2>2, <2>4, <2>5 DEF ResetInv
<1>6. QED
  BY <1>4, <1>5

(* The timer announces its rate before any tick.                           *)
LEMMA RateSet ==
  ASSUME ResetInv, alt_sysclk_init
  PROVE  ResetInv'
<1>1. /\ rate = 0 /\ rate' \in Rates /\ nticks' = nticks
      /\ wall' = wall /\ resettime' = resettime
  BY DEF alt_sysclk_init
<1>2. /\ nticks = 0 /\ wall = [base |-> 0, ticks |-> 0]
      /\ resettime = [tv_sec |-> 0, tv_usec |-> 0] /\ nticks \in Moments
  BY <1>1 DEF ResetInv
<1>3. PICK r \in Nat \ {0}, U \in Nat \ {0} : r = rate' /\ U = ALT_US
  BY <1>1, ClockAssumption
<1>4. /\ wall'.base = 0 /\ wall'.ticks = 0 /\ wall' \in [base : Nat, ticks : Nat]
      /\ resettime'.tv_sec = 0 /\ resettime'.tv_usec = 0 /\ nticks' = 0
      /\ resettime' \in [tv_sec : Int, tv_usec : Int]
  BY <1>1, <1>2
<1>5. (0 - 0) \div r = 0
  <2>1. (r * 0 + 0) \div r = 0
    BY Remainder
  <2>2. QED
    BY <2>1
<1>6. 0 \in 0 .. U - 1 /\ 0 * U + 0 = (0 - 0 * U) - 0
  OBVIOUS
<1>7. \E f \in 0 .. ALT_US - 1 :
        resettime'.tv_sec * ALT_US + resettime'.tv_usec
          = (wall'.base - ((nticks' - wall'.ticks) \div rate') * ALT_US) - f
  BY <1>3, <1>4, <1>5, <1>6
<1>8. QED
  BY <1>1, <1>2, <1>3, <1>4, <1>7 DEF ResetInv

(* Every step keeps what the time of day was reset to.                     *)
LEMMA StepResetInv ==
  ASSUME ResetInv, [Next]_vars
  PROVE  ResetInv'
<1>1. CASE UNCHANGED <<rate, nticks, wall, resettime>>
  BY <1>1 DEF ResetInv
<1>2. CASE TickWalks \/ CallbackEnds \/ TickReturns
  BY <1>1, <1>2 DEF TickWalks, CallbackEnds, TickReturns
<1>3. ASSUME NEW a \in Alarms, alt_alarm_stop(a) \/ \E n \in Delays : alt_alarm_start(a, n)
      PROVE  ResetInv'
  BY <1>1, <1>3 DEF alt_alarm_stop, alt_alarm_start
<1>4. CASE UNCHANGED vars
  BY <1>1, <1>4 DEF vars
<1>5. QED
  BY <1>2, <1>3, <1>4, SetsTime, TicksTime, RateSet DEF Next, Tick

(* What is read is off by less than two seconds.                           *)
LEMMA ReadsOfResetInv ==
  ASSUME ResetInv
  PROVE  NeverFarOff
<1> DEFINE off(time) == rate * (time - wall.base) - wall.ticks * ALT_US
<1> SUFFICES ASSUME wall # Lost, rate # 0
             PROVE  /\ -(2 * rate * ALT_US) < off(alt_gettimeofday)
                    /\ off(alt_gettimeofday) < 2 * rate * ALT_US
  BY DEF NeverFarOff
<1> HIDE DEF off
<1>1. PICK r \in Nat \ {0}, U \in Nat \ {0}, n \in Nat : r = rate /\ U = ALT_US /\ n = nticks
  BY RatesAndTicks
<1>2. PICK base \in Nat, ticks \in Nat, sec \in Int, usec \in Int, f \in 0 .. U - 1 :
        /\ base = wall.base /\ ticks = wall.ticks /\ ticks <= n
        /\ sec = resettime.tv_sec /\ usec = resettime.tv_usec
        /\ sec * U + usec = (base - ((n - ticks) \div r) * U) - f
  <2>1. /\ wall.base \in Nat /\ wall.ticks \in Nat /\ wall.ticks <= nticks
        /\ resettime.tv_sec \in Int /\ resettime.tv_usec \in Int
    BY DEF ResetInv
  <2>2. PICK f \in 0 .. ALT_US - 1 :
          resettime.tv_sec * ALT_US + resettime.tv_usec
            = (wall.base - ((nticks - wall.ticks) \div rate) * ALT_US) - f
    BY DEF ResetInv
  <2>3. f \in 0 .. U - 1
    BY <1>1, <2>2
  <2>4. resettime.tv_sec * U + resettime.tv_usec
          = (wall.base - ((n - wall.ticks) \div r) * U) - f
    BY <1>1, <2>2, Zenon
  <2>5. wall.ticks <= n
    BY <1>1, <2>1
  <2>6. QED
    BY <2>1, <2>3, <2>4, <2>5, Zenon
<1>3. PICK n0 \in Nat : n0 = n - ticks
  BY <1>2
<1>4. PICK g \in 0 .. U - 1 : g = (n * (U \div r)) % U
  <2>1. PICK R \in Nat : R = U \div r
    OBVIOUS
  <2>2. PICK m \in Nat : m = n * R
    OBVIOUS
  <2>3. m % U \in 0 .. U - 1
    OBVIOUS
  <2>4. QED
    BY <2>1, <2>2, <2>3
<1>5. PICK a \in Int, b \in Int : a = n \div r /\ b = n0 \div r
  OBVIOUS
<1>6. PICK S \in Int : S = (sec + a) * U + (usec + g)
  OBVIOUS
<1>7. alt_gettimeofday = Normalised(sec + a, usec + g)
  BY <1>1, <1>2, <1>4, <1>5 DEF alt_gettimeofday
<1>8. PICK e \in Int : e = S - base /\ e = ((n \div r) - (n0 \div r)) * U + (g - f)
  <2>1. (sec + a) * U = sec * U + a * U /\ (a - b) * U = a * U - b * U
    OBVIOUS
  <2>2. sec * U \in Int /\ a * U \in Int /\ b * U \in Int
    OBVIOUS
  <2>3. sec * U + usec = (base - b * U) - f
    BY <1>2, <1>3, <1>5
  <2>4. S - base = (a - b) * U + (g - f)
    BY <1>6, <2>1, <2>2, <2>3
  <2>5. QED
    BY <1>5, <2>4
<1>9. /\ -(2 * r * U) < r * e - (n - n0) * U
      /\ r * e - (n - n0) * U < 2 * r * U
  BY <1>8, WithinTwoSeconds
<1>10. n - n0 = ticks
  BY <1>2, <1>3
<1>11. \A time \in Int : off(time) = r * (time - base) - ticks * U
  BY <1>1, <1>2 DEF off
<1>12. -(2 * r * U) < off(S) /\ off(S) < 2 * r * U
  BY <1>8, <1>9, <1>10, <1>11
<1>13. CASE alt_gettimeofday = S
  BY <1>1, <1>12, <1>13
<1>14. CASE alt_gettimeofday = 0 /\ S < 0
  <2>1. r * (0 - base) >= r * (S - base)
    BY <1>14
  <2>2. r * (0 - base) <= 0
    <3>1. 0 - base <= 0
      OBVIOUS
    <3>2. QED
      BY <3>1
  <2>3. /\ ticks * U >= 0 /\ 2 * r * U > 0 /\ ticks * U \in Int
        /\ r * (0 - base) \in Int /\ r * (S - base) \in Int
    OBVIOUS
  <2>4. off(0) = r * (0 - base) - ticks * U /\ off(S) = r * (S - base) - ticks * U
    BY <1>11
  <2>5. QED
    BY <1>1, <1>12, <1>14, <2>1, <2>2, <2>3, <2>4
<1>15. QED
  <2>1. alt_gettimeofday = IF usec + g < 0 /\ S < 0 THEN 0 ELSE S
    BY <1>1, <1>6, <1>7 DEF Normalised
  <2>2. QED
    BY <1>13, <1>14, <2>1

(* The invariant of the time of day.                                       *)
THEOREM ResetInvariant == Spec => []ResetInv
<1>1. Init => ResetInv
  BY ClockAssumption DEF Init, ResetInv, Moments
<1>2. ResetInv /\ [Next]_vars => ResetInv'
  BY StepResetInv
<1>3. QED
  BY <1>1, <1>2, PTL DEF Spec

(* The time of day stays within two seconds of the time set and what has   *)
(* passed since, until the counter wraps, at every rate and however often  *)
(* the 32 bits of alt_settod.c:84 overflow.                                *)
THEOREM TimeIsNeverFarOff == Spec => []NeverFarOff
<1>1. ResetInv => NeverFarOff
  BY ReadsOfResetInv
<1>2. Spec => []ResetInv
  BY ResetInvariant
<1>3. QED
  BY <1>1, <1>2, PTL
=============================================================================
