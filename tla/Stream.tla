------------------------------- MODULE Stream -------------------------------
(***************************************************************************)
(* What a byte stream promises its two ends: characters, numbered in the   *)
(* order they are put in, come out in that order, none lost and none       *)
(* twice, and at most Room of them are on the way.                         *)
(***************************************************************************)
EXTENDS Integers, Sequences

CONSTANT Room

VARIABLES
  transit,  \* the characters on the way, the oldest first
  put,      \* how many were put in
  got       \* the number of the last one that came out, 0 before the first

vars == <<transit, put, got>>

Init == transit = <<>> /\ put = 0 /\ got = 0

Put(k) ==
  /\ Len(transit) + k <= Room
  /\ transit' = transit \o [i \in 1 .. k |-> put + i]
  /\ put' = put + k
  /\ UNCHANGED got

Take(k) ==
  /\ transit' = SubSeq(transit, k + 1, Len(transit))
  /\ got' = transit[k]
  /\ UNCHANGED put

Next == \/ \E k \in 1 .. Room : Put(k)
        \/ \E k \in 1 .. Len(transit) : Take(k)

Spec == Init /\ [][Next]_vars
=============================================================================
