---------------------------- MODULE MCSystemClock ----------------------------
(* SystemClock for TLC.  The alarms and the time of day share nothing but  *)
(* the counter and its rate, which neither changes, and no property reads  *)
(* both: the behaviours in which alarms are started and those in which the *)
(* time of day is set are explored side by side instead of multiplied, the *)
(* former at one rate, as an alarm asks of it only that it is not zero.    *)
EXTENDS SystemClock

CONSTANT AlarmRate

NoAlarms  == \A a \in Alarms : list.next[a] = Null
TimeUnset == (wall = Lost \/ wall.base = 0) /\ rate \in {0, AlarmRate}

MCSpec ==
  /\ Init /\ [][Next /\ (NoAlarms' \/ TimeUnset')]_vars
  /\ WF_vars(TickWalks) /\ WF_vars(CallbackEnds) /\ WF_vars(TickReturns)
=============================================================================
