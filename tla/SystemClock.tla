---------------------------- MODULE SystemClock ----------------------------
(***************************************************************************)
(* The system clock of the library: the tick counter, the alarms that      *)
(* hang on it (alt_alarm_start.c, alt_tick.c, alt_llist.h) and the time of *)
(* day that is computed from it (alt_settod.c, alt_gettod.c).              *)
(*                                                                         *)
(* alt_tick runs in the interrupt of the timer.  It is taken apart: one    *)
(* step per alarm of its list, and a callback may call the library before  *)
(* it returns.  Starting and stopping an alarm disables interrupts and is  *)
(* one step.                                                               *)
(***************************************************************************)
EXTENDS Integers

CONSTANTS
  Alarms, Head,    \* the alarms, and the head of their list
  Null,            \* the links of an alarm that was never started
  Modulus,         \* the number of values of an alt_u32
  ALT_US,          \* microseconds in a second
  Rates,           \* the tick rates a timer may announce
  Delays, Periods, \* bound: the delays asked for, the periods callbacks return
  Times            \* bound: the times of day that are set, in microseconds

ASSUME ClockAssumption ==
  /\ Head \notin Alarms /\ Null \notin Alarms \cup {Head}
  /\ Modulus \in Nat /\ Modulus > 1 /\ ALT_US \in Nat \ {0}
  /\ Rates \subseteq 1 .. ALT_US /\ Times \subseteq Nat
  /\ Delays \subseteq 0 .. Modulus - 2     \* one more would overflow the sum
  /\ Periods \subseteq 1 .. Modulus - 1

VARIABLES
  rate,       \* _alt_tick_rate
  nticks,     \* _alt_nticks
  list,       \* [next, previous]: the links of alt_alarm_list and the alarms
  alarm,      \* [time, rollover] of each alarm
  tick,       \* alt_tick: where it is, its alarm and its next
  resettime,  \* alt_resettime
  due,        \* history: in how many ticks each alarm is to be called, or Never
  wall        \* history: the time of day set last, and the ticks since

vars == <<rate, nticks, list, alarm, tick, resettime, due, wall>>

Never == -1
Lost  == [base |-> -1, ticks |-> 0]
Idle  == [at |-> "off", alarm |-> Head, next |-> Head]

Init ==
  /\ rate = 0 /\ nticks = 0
  /\ list = [next     |-> [e \in Alarms \cup {Head} |-> IF e = Head THEN Head ELSE Null],
             previous |-> [e \in Alarms \cup {Head} |-> IF e = Head THEN Head ELSE Null]]
  /\ alarm = [a \in Alarms |-> [time |-> 0, rollover |-> FALSE]]
  /\ tick = Idle
  /\ resettime = [tv_sec |-> 0, tv_usec |-> 0]
  /\ due = [a \in Alarms |-> Never]
  /\ wall = [base |-> 0, ticks |-> 0]

-----------------------------------------------------------------------------
(* The doubly linked list.                                                 *)
alt_llist_insertHeadFirst(l, e) ==   \* a mutant: the head's link is set too early
  LET headed == [l.next EXCEPT ![Head] = e]
  IN  [next |-> [headed EXCEPT ![e] = headed[Head]],
       previous |-> [[l.previous EXCEPT ![e] = Head] EXCEPT ![l.next[Head]] = e]]

alt_llist_insert(l, e) ==
  LET entered == [next |-> [l.next EXCEPT ![e] = l.next[Head]],
                  previous |-> [l.previous EXCEPT ![e] = Head]]
  IN  [next |-> [entered.next EXCEPT ![Head] = e],
       previous |-> [entered.previous EXCEPT ![l.next[Head]] = e]]

alt_llist_removeHalf(l, e) ==   \* a mutant: the backward link stays
  [next |-> [[l.next EXCEPT ![l.previous[e]] = l.next[e]] EXCEPT ![e] = e],
   previous |-> [l.previous EXCEPT ![e] = e]]

alt_llist_remove(l, e) ==
  LET unlinked == [previous |-> [l.previous EXCEPT ![l.next[e]] = l.previous[e]],
                   next |-> [l.next EXCEPT ![l.previous[e]] = l.next[e]]]
  IN  [next |-> [unlinked.next EXCEPT ![e] = e],
       previous |-> [unlinked.previous EXCEPT ![e] = e]]

(* The timer announces its rate; the first one counts.                     *)
alt_sysclk_init ==
  /\ rate = 0 /\ rate' \in Rates
  /\ UNCHANGED <<nticks, list, alarm, tick, resettime, due, wall>>

-----------------------------------------------------------------------------
(* An alarm is started by the program or by a callback, that of the alarm  *)
(* itself too once it has stopped it.  The library relies on its caller    *)
(* not to start one that is running.                                       *)
TimedAtUnrolled(time) == [time |-> time, rollover |-> FALSE]   \* a mutant: no flag

TimedAt(time) == [time |-> time, rollover |-> time < nticks]

alt_alarm_start(a, n) ==
  /\ rate # 0 /\ tick.at \in {"off", "call"}
  /\ list.next[a] \in {Null, a}
  /\ alarm' = [alarm EXCEPT ![a] = TimedAt((n + nticks + 1) % Modulus)]
  /\ list' = alt_llist_insert(list, a)
  /\ due' = [due EXCEPT ![a] = n + 1]
  /\ UNCHANGED <<rate, nticks, tick, resettime, wall>>

(* Any alarm may be stopped, the one the walk has noted as its next too.   *)
alt_alarm_stop(a) ==
  /\ tick.at \in {"off", "call"} /\ list.next[a] # Null
  /\ list' = alt_llist_remove(list, a)
  /\ due' = [due EXCEPT ![a] = Never]
  /\ UNCHANGED <<rate, nticks, alarm, tick, resettime, wall>>

-----------------------------------------------------------------------------
(* The interrupt of the timer: the counter moves on and the walk begins.   *)
TickBegins ==
  LET now == (nticks + 1) % Modulus
  IN  /\ rate # 0 /\ tick.at = "off"
      /\ nticks' = now
      /\ tick' = [at |-> "walk", alarm |-> list.next[Head], next |-> Head]
      /\ due' = [a \in Alarms |-> IF due[a] = Never THEN Never ELSE due[a] - 1]
      /\ wall' = IF wall = Lost \/ now = 0 THEN Lost ELSE [wall EXCEPT !.ticks = @ + 1]
      /\ UNCHANGED <<rate, list, alarm, resettime>>

(* An alarm whose time has passed is called, unless the counter has yet to *)
(* roll over before that time comes.                                       *)
Expired(a) == a.time <= nticks /\ ~a.rollover

Unrolled(a) == [a EXCEPT !.rollover = @ /\ nticks # 0]

TickWalks ==
  /\ tick.at = "walk" /\ tick.alarm # Head
  /\ alarm' = [alarm EXCEPT ![tick.alarm] = Unrolled(@)]
  /\ tick' = LET next == list.next[tick.alarm]
             IN  IF Expired(Unrolled(alarm[tick.alarm]))
                 THEN [tick EXCEPT !.at = "call", !.next = next]
                 ELSE [tick EXCEPT !.alarm = next]
  /\ UNCHANGED <<rate, nticks, list, resettime, due, wall>>

(* Where the walk goes on: what it read before the callback.               *)
After == tick.next

(* Bound: no alarm is timed a whole turn of the counter ahead, neither by  *)
(* one delay or period nor by the two that add up when a callback starts   *)
(* its own alarm anew and returns a period as well.                        *)
WithinATurn(a, p) == due[a] # Never => due[a] + p < Modulus

(* The callback returns 0 to be called no more, or the ticks until the     *)
(* next time, which are added to the time of the alarm as it stands.       *)
CallbackEnds ==
  LET a == tick.alarm
  IN  /\ tick.at = "call"
      /\ \/ list' = alt_llist_remove(list, a)
            /\ due' = [due EXCEPT ![a] = Never]
            /\ UNCHANGED alarm
         \/ \E p \in Periods :
              LET time == (alarm[a].time + p) % Modulus
              IN  /\ WithinATurn(a, p)
                  /\ alarm' = [alarm EXCEPT ![a] = [time |-> time, rollover |-> @.rollover \/ time < nticks]]
                  /\ due' = [due EXCEPT ![a] = IF @ = Never THEN Never ELSE @ + p]
                  /\ UNCHANGED list
      /\ tick' = [at |-> "walk", alarm |-> After, next |-> Head]
      /\ UNCHANGED <<rate, nticks, resettime, wall>>

TickReturns ==
  /\ tick.at = "walk" /\ tick.alarm = Head
  /\ tick' = Idle
  /\ UNCHANGED <<rate, nticks, list, alarm, resettime, due, wall>>

-----------------------------------------------------------------------------
(* The time of day.  Setting it multiplies in 32 bits, reading it in 64.   *)
ResetTimeFresh(t) ==   \* a mutant: the ticks counted before stay in
  [tv_sec |-> t \div ALT_US, tv_usec |-> t % ALT_US]

ResetTime(t) ==
  [tv_sec |-> (t \div ALT_US) - (nticks \div rate),
   tv_usec |-> (t % ALT_US) - (((nticks * (ALT_US \div rate)) % Modulus) % ALT_US)]

alt_settimeofday(t) ==
  /\ rate # 0 /\ tick.at = "off"
  /\ resettime' = ResetTime(t)
  /\ wall' = [base |-> t, ticks |-> 0]
  /\ UNCHANGED <<rate, nticks, list, alarm, tick, due>>

(* The loops that normalise the microseconds stop at zero seconds.         *)
Normalised(sec, usec) == IF usec < 0 /\ sec * ALT_US + usec < 0 THEN 0 ELSE sec * ALT_US + usec

alt_gettimeofday ==
  Normalised(resettime.tv_sec + (nticks \div rate),
             resettime.tv_usec + ((nticks * (ALT_US \div rate)) % ALT_US))

-----------------------------------------------------------------------------
Tick == TickBegins \/ TickWalks \/ CallbackEnds \/ TickReturns

Next ==
  \/ alt_sysclk_init \/ Tick
  \/ \E a \in Alarms : alt_alarm_stop(a) \/ \E n \in Delays : alt_alarm_start(a, n)
  \/ \E t \in Times : alt_settimeofday(t)

Spec == Init /\ [][Next]_vars

(* The processor goes on with an interrupt routine, and every callback     *)
(* returns.                                                                *)
FairSpec ==
  Spec /\ WF_vars(TickWalks) /\ WF_vars(CallbackEnds) /\ WF_vars(TickReturns)

-----------------------------------------------------------------------------
(* A running alarm is not called before its ticks have passed, and none is *)
(* passed over: when alt_tick returns, every alarm that was due has been   *)
(* called, over the wrap of the counter too (the rollover flag of          *)
(* alt_tick.c:106), whatever callbacks start, stop and start anew.  That   *)
(* an alarm which was stopped stays silent is another matter, below.       *)
CalledOnTime ==
  [][/\ (tick.at = "walk" /\ tick'.at = "call") => due[tick.alarm] \in {0, Never}
     /\ (tick.at = "walk" /\ tick'.at = "off") => \A a \in Alarms : due[a] # 0]_vars

(* The list is one ring through its head of exactly the alarms that were   *)
(* started and not stopped, and its backward links are those of the ring,  *)
(* whatever callbacks start and stop in the middle of a walk               *)
(* (alt_llist.h:86-114).                                                   *)
RingOfRunning ==
  LET running == {Head} \cup {a \in Alarms : due[a] # Never}
  IN  /\ \A e \in running : list.next[e] \in running /\ list.previous[list.next[e]] = e
      /\ \A S \in SUBSET running :
           Head \in S /\ (\A e \in S : list.next[e] \in S) => S = running

(* The walk stands at an alarm that is not in the list any more.           *)
Astray == tick.at = "walk" /\ tick.alarm # Head /\ due[tick.alarm] = Never

(* The interrupt of the timer returns, unless its walk goes astray: the    *)
(* one way for it never to end is that a callback stops the alarm which    *)
(* the walk has noted as its next (alt_tick.c:102).                        *)
TickReturnsAtLast == tick.at = "walk" ~> (tick.at = "off" \/ Astray)

(* The code does not keep this: an alarm that was stopped is not called    *)
(* (alt_alarm.h:73, "alt_alarm_stop() is used to unregister a callback").  *)
StoppedIsSilent ==
  [][(tick.at = "walk" /\ tick'.at = "call") => due[tick.alarm] # Never]_vars

(* Until the counter wraps, the time of day is less than two seconds off   *)
(* the time that was set and what has passed since, whatever the rate and  *)
(* wherever the 32 bits of alt_settod.c:84 overflow: the seconds are kept  *)
(* apart from the product that does.  Multiplied by the rate, as a tick    *)
(* need not be a whole number of microseconds.                             *)
NeverFarOff ==
  wall # Lost /\ rate # 0 =>
    LET off == rate * (alt_gettimeofday - wall.base) - wall.ticks * ALT_US
    IN  -(2 * rate * ALT_US) < off /\ off < 2 * rate * ALT_US

(* The code does not keep this once the product overflows: read at once,   *)
(* the time is the one that was set (alt_settod.c:61-63: "an immediate     *)
(* call to gettimeofday() would return the value specified").              *)
ReadsAsSet ==
  wall # Lost /\ rate # 0 /\ wall.ticks = 0 => alt_gettimeofday = wall.base
=============================================================================
