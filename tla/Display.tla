------------------------------- MODULE Display -------------------------------
(***************************************************************************)
(* The program of the soft processor                                       *)
(* (DE0_NANO/software/c_program/hello_world_small.c) and the character     *)
(* display it writes to: an endless loop that reads the speed, sends       *)
(* "RPM: " and its digits, waits, and clears the display.                  *)
(*                                                                         *)
(* Every byte is sent by three writes to one output port, with the byte on *)
(* it all the time and the enable line E high, low and high again, and a   *)
(* sleep of 1 ms after each, which the library makes a loop of whole       *)
(* passes per microsecond.  E is left high between two bytes.              *)
(*                                                                         *)
(* The display is not part of the repository.  It is modelled from how the *)
(* program uses it: it takes a byte when E falls, appends a character or   *)
(* executes a command, and takes nothing for Recovery after a clear        *)
(* (1.52 ms in the data sheets of such displays).                          *)
(***************************************************************************)
EXTENDS Naturals, Sequences

CONSTANTS
  Speeds,           \* the values the speed port may have, numbers of 10 bits
  ALT_CPU_FREQ,     \* the clock of the processor, in MHz
  cycles_per_loop,  \* clocks of one pass of the loop that sleeps
  INT_MAX,          \* the largest count of such a loop
  Recovery          \* clocks the display takes for a clear

ASSUME DisplayAssumption ==
  /\ Speeds # {} /\ Speeds \subseteq 0..1023
  /\ cycles_per_loop \in Nat \ {0} /\ ALT_CPU_FREQ \in Nat /\ ALT_CPU_FREQ >= cycles_per_loop
  /\ INT_MAX \in Nat /\ INT_MAX >= ALT_CPU_FREQ /\ Recovery \in Nat

VARIABLES
  SPEED_REF,  \* the speed at the input port of that name
  speed_datain, \* what the program last read there
  todo,       \* the bytes the program has still to send, of this pass
  strobe,     \* how many of the three writes of the first of them are done
  E,          \* the enable line: bit 10 of the output port
  shown,      \* the display: its characters
  busy,       \* processor clocks until it takes the next byte
  missed      \* history: has it been sent a byte while busy?

lcd  == <<shown, busy, missed>>
display == <<SPEED_REF, speed_datain, todo, strobe, E, lcd>>

(* What goes out on the port with E: the line RS and a byte.               *)
Command(cmd) == [RS |-> FALSE, byte |-> cmd]
Data(char)   == [RS |-> TRUE, byte |-> char]

Clear      == Command(1)
Initialize == <<Command(56), Command(15), Clear, Command(6)>>

Prompt == <<82, 80, 77, 58, 32>>      \* "RPM: "

(* "%d" of a number of at most four digits, without leading zeros; a digit *)
(* d is the character 48 + d.                                              *)
Str(v) ==
  LET digit == <<v \div 1000, (v \div 100) % 10, (v \div 10) % 10, v % 10>>
      first == CHOOSE i \in 1..4 : /\ digit[i] # 0 \/ i = 4
                                   /\ \A j \in 1 .. i - 1 : digit[j] = 0
  IN  [i \in 1 .. 5 - first |-> 48 + digit[first + i - 1]]

(* What one pass of the loop should leave on the display.                  *)
Message(v) == Prompt \o Str(v)

(* The display comes up blank, E is low, the program is before its first   *)
(* command.                                                                *)
DisplayInit ==
  /\ SPEED_REF \in Speeds
  /\ speed_datain = 0
  /\ todo = Initialize
  /\ strobe = 0
  /\ E = FALSE
  /\ shown = <<>> /\ busy = 0 /\ missed = FALSE

-----------------------------------------------------------------------------
(* How long alt_busy_sleep(us) lasts, in clocks.  The passes per           *)
(* microsecond are rounded down.  A time of more than INT_MAX passes is    *)
(* taken in loops of INT_MAX, and the rest in one that ends at zero: a     *)
(* rest of 0 would count through all of a word, 2 * INT_MAX + 2 passes.    *)
PassesPerUs == ALT_CPU_FREQ \div cycles_per_loop

alt_busy_sleep(us) ==
  LET longest   == INT_MAX \div PassesPerUs
      big_loops == us \div longest
      rest      == us % longest
      passes    == IF big_loops = 0 THEN (IF us = 0 THEN 1 ELSE us * PassesPerUs)
                   ELSE big_loops * INT_MAX
                          + (IF rest = 0 THEN 2 * INT_MAX + 2 ELSE rest * PassesPerUs)
  IN  passes * cycles_per_loop

(* The display while the program sleeps after driving E to level.          *)
Strobe(level, sent, sleep) ==
  LET takes == E /\ ~level
      wait  == IF takes /\ sent = Clear /\ busy = 0 THEN Recovery ELSE busy
  IN  /\ E' = level
      /\ missed' = (missed \/ (takes /\ busy > 0))
      /\ shown' = IF ~takes \/ busy > 0 THEN shown
                  ELSE IF sent = Clear THEN <<>>
                  ELSE IF sent.RS THEN Append(shown, sent.byte)
                  ELSE shown
      /\ busy' = IF wait > sleep THEN wait - sleep ELSE 0

(* A sender without the sleeps between its writes.                         *)
SleepOnce == IF strobe = 2 THEN alt_busy_sleep(1000) ELSE 0

(* The sleep after a write.                                                *)
SleepEach == alt_busy_sleep(1000)

(* A sender that never lowers E.                                           *)
LevelsHigh == TRUE

(* The level of E in the three writes.                                     *)
Levels == strobe \in {0, 2}

(* One write of SendCommand or SendData, with its sleep.                   *)
Write ==
  /\ todo # <<>>
  /\ Strobe(Levels, Head(todo), SleepEach)
  /\ strobe' = (strobe + 1) % 3
  /\ todo' = IF strobe = 2 THEN Tail(todo) ELSE todo
  /\ UNCHANGED <<SPEED_REF, speed_datain>>

(* The characters of a message, to be sent one by one.                     *)
SendMessage(msg) == [i \in 1..Len(msg) |-> Data(msg[i])]

(* A loop that clears the display only before its first pass.              *)
ReadSpeedNoClear ==
  /\ todo = <<>>
  /\ speed_datain' = SPEED_REF
  /\ todo' = SendMessage(Message(SPEED_REF))
  /\ UNCHANGED <<SPEED_REF, strobe, E, lcd>>

(* The head of the loop: the speed is read once and formatted; the pass    *)
(* ends with a clear, 100 ms after the last character.                     *)
ReadSpeed ==
  /\ todo = <<>>
  /\ speed_datain' = SPEED_REF
  /\ todo' = Append(SendMessage(Message(SPEED_REF)), Clear)
  /\ UNCHANGED <<SPEED_REF, strobe, E, lcd>>

(* The speed changes at any time.                                          *)
RpmChange(v) ==
  /\ v # SPEED_REF
  /\ SPEED_REF' = v
  /\ UNCHANGED <<speed_datain, todo, strobe, E, lcd>>

DisplayNext ==
  \/ Write
  \/ ReadSpeed
  \/ \E v \in Speeds : RpmChange(v)

DisplaySpec == DisplayInit /\ [][DisplayNext]_display

(* The processor runs, and nothing in the loop waits for anything else.    *)
DisplayFairSpec == DisplaySpec /\ WF_display(Write) /\ WF_display(ReadSpeed)

-----------------------------------------------------------------------------
(* Every byte reaches the display: it is never sent one while it is busy,  *)
(* not even the first character after a clear, although a sleep is shorter *)
(* than it says by the rounding of its passes (alt_busy_sleep.c:74-129).   *)
NothingMissed == ~missed

(* The display never mixes two speeds: what it shows is the beginning of   *)
(* the message of the one value that this pass has read, each byte once    *)
(* although E is strobed with three writes.                                *)
ShowsOneReading ==
  /\ Len(shown) <= Len(Message(speed_datain))
  /\ shown = SubSeq(Message(speed_datain), 1, Len(shown))

(* If the speed stays, the display shows it again and again.               *)
ShowsTheSpeed ==
  \A v \in Speeds : <>[](SPEED_REF = v) => []<>(shown = Message(v))
=============================================================================
