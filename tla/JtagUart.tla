------------------------------ MODULE JtagUart ------------------------------
(***************************************************************************)
(* The console: the JTAG UART of the processor system                      *)
(* (nios2_proc_jtag_uart.v) and its driver (drivers/src), in the interrupt *)
(* driven form with its ring buffers and its one-second alarm, and in the  *)
(* small polling form this build uses.                                     *)
(*                                                                         *)
(* The program makes one call at a time; between any two of its accesses   *)
(* to what it shares with the interrupt routine that routine, the alarm    *)
(* and the host may move.  A pass of the interrupt routine is three steps: *)
(* the control register is read, then received characters are taken over,  *)
(* then characters are sent.  Characters are numbered in the order they    *)
(* enter each direction.                                                   *)
(***************************************************************************)
EXTENDS Integers, Sequences

CONSTANTS
  BUF_LEN,    \* ALTERA_AVALON_JTAG_UART_BUF_LEN, the length of a ring
  Depth,      \* the length of the UART's two FIFOs
  Threshold,  \* the fill level at or below which the UART asks for more
  INT_MAX,    \* the largest int
  MaxPut,     \* bound: characters written and sent by the host, together
  Counts,     \* the numbers of characters a call asks for
  Starts,     \* the places the rings may begin at: 0, any other after earlier traffic
  Smalls,     \* the builds: is the driver the small one?
  Rereads     \* does the compiled waiting loop read host_inactive again?

ASSUME JtagAssumption ==
  /\ BUF_LEN \in Nat \ {0, 1} /\ Depth \in Nat \ {0} /\ Threshold \in 0 .. Depth - 1
  /\ INT_MAX \in Nat /\ INT_MAX > 3 /\ MaxPut \in Nat /\ Counts \subseteq Nat
  /\ Starts \subseteq 0 .. BUF_LEN - 1
  /\ Smalls \subseteq BOOLEAN /\ Rereads \subseteq BOOLEAN

VARIABLES
  build,      \* [small, clock, rereads]: how the program was built
  host,       \* is the host there?
  hw,         \* the UART: rfifo, wfifo, pause_irq, ac, ien_AF, ien_AE
  sp,         \* the driver's state structure
  irq_enable, \* of it, [RE, WE]: the copy of the device's interrupt enables
  isr,        \* the interrupt routine: [at, ri, wi, space]
  call,       \* the call the program is in
  seen        \* [written, shown, sent, read]: the characters that passed each end

vars == <<build, host, hw, sp, irq_enable, isr, call, seen>>

Idle == [at |-> "idle", nonblock |-> FALSE, left |-> 0, moved |-> FALSE,
         in |-> 0, out |-> 0, n |-> 0, gone |-> FALSE]
Away == [at |-> "off", ri |-> FALSE, wi |-> FALSE, space |-> 0]
Smaller(a, b) == IF a < b THEN a ELSE b

(* altera_avalon_jtag_uart_init: reading is enabled; without a system      *)
(* clock there is no alarm and the host counts as present for ever.        *)
Init ==
  /\ build \in [small: Smalls, clock: BOOLEAN, rereads: Rereads]
  /\ host = TRUE
  /\ hw = [rfifo |-> <<>>, wfifo |-> <<>>, pause_irq |-> FALSE, ac |-> FALSE,
           ien_AF |-> ~build.small, ien_AE |-> FALSE]
  /\ \E s \in Starts :
     sp = [timeout |-> IF build.clock THEN 2 ELSE INT_MAX, host_inactive |-> 0,
           rx_in |-> s, rx_out |-> s, tx_in |-> s, tx_out |-> s,
           rx_buf |-> [i \in 0 .. BUF_LEN - 1 |-> 0], tx_buf |-> [i \in 0 .. BUF_LEN - 1 |-> 0]]
  /\ irq_enable = [RE |-> ~build.small, WE |-> FALSE]
  /\ isr = Away
  /\ call = Idle
  /\ seen = [written |-> 0, shown |-> 0, sent |-> 0, read |-> 0]

-----------------------------------------------------------------------------
(* The UART's registers.                                                   *)
WSPACE  == Depth - Len(hw.wfifo)
fifo_AF == Depth - Len(hw.rfifo) <= Threshold
fifo_AE == Len(hw.wfifo) <= Threshold
RI == hw.ien_AF /\ (hw.pause_irq \/ fifo_AF)
WI == hw.ien_AE /\ fifo_AE
AC == hw.ac

(* The enables written to the control register.                            *)
ControlWritten(h, e) == [h EXCEPT !.ien_AF = e.RE, !.ien_AE = e.WE]

(* Characters written to the data register: a full FIFO loses them.        *)
DataWritten(h, chars) ==
  LET fits == Smaller(Len(chars), Depth - Len(h.wfifo))
  IN  [h EXCEPT !.wfifo = @ \o SubSeq(chars, 1, fits)]

(* The characters that were put in, and those a running write will put in. *)
Promised == seen.sent + seen.written
              + (IF call.at \in {"put", "copyIn", "kick", "putWait", "putSmall"} THEN call.left ELSE 0)

(* The host's end: it sends a character if there is room, pauses when it   *)
(* has none, and takes what was written.  It may leave at any time.        *)
HostSends ==
  /\ host /\ Len(hw.rfifo) < Depth /\ Promised < MaxPut
  /\ hw' = [hw EXCEPT !.rfifo = Append(@, seen.sent + 1), !.ac = TRUE]
  /\ seen' = [seen EXCEPT !.sent = @ + 1]
  /\ UNCHANGED <<build, host, sp, irq_enable, isr, call>>

HostPauses ==
  /\ host
  /\ hw' = [hw EXCEPT !.pause_irq = @ \/ hw.rfifo # <<>>, !.ac = TRUE]
  /\ UNCHANGED <<build, host, sp, irq_enable, isr, call, seen>>

HostTakes ==
  /\ host /\ hw.wfifo # <<>>
  /\ hw' = [hw EXCEPT !.wfifo = Tail(@)]
  /\ seen' = [seen EXCEPT !.shown = Head(hw.wfifo)]
  /\ UNCHANGED <<build, host, sp, irq_enable, isr, call>>

HostLeaves ==
  /\ host /\ host' = FALSE
  /\ UNCHANGED <<build, hw, sp, irq_enable, isr, call, seen>>

-----------------------------------------------------------------------------
(* The interrupt routine.  It begins when the UART interrupts; nothing     *)
(* else runs until it returns.                                             *)
Interrupt ==
  /\ isr.at = "off" /\ (RI \/ WI)
  /\ isr' = [isr EXCEPT !.at = "control"]
  /\ UNCHANGED <<build, host, hw, sp, irq_enable, call, seen>>

IsrControl ==
  /\ isr.at = "control"
  /\ isr' = IF RI \/ WI THEN [at |-> "receive", ri |-> RI, wi |-> WI, space |-> WSPACE] ELSE Away
  /\ UNCHANGED <<build, host, hw, sp, irq_enable, call, seen>>

(* Chars are taken while the ring has room; characters left over then turn *)
(* the receive interrupt off.  Any read of the data register, that of an   *)
(* empty FIFO too, ends a pause.                                           *)
IsrReceive ==
  LET room == (sp.rx_out - sp.rx_in - 1) % BUF_LEN
      k    == Smaller(room, Len(hw.rfifo))
      left == room = 0 \/ (room = k /\ Len(hw.rfifo) > k)
  IN  /\ isr.at = "receive"
      /\ isr' = [isr EXCEPT !.at = "transmit"]
      /\ IF isr.ri
         THEN /\ sp' = [sp EXCEPT !.rx_in = (@ + k) % BUF_LEN,
                          !.rx_buf = [i \in DOMAIN @ |->
                             LET j == (i - sp.rx_in) % BUF_LEN IN
                             IF j < k THEN hw.rfifo[j + 1] ELSE @[i]]]
              /\ LET taken == [hw EXCEPT !.rfifo = SubSeq(@, k + 1, Len(@)),
                                         !.pause_irq = @ /\ room = 0]
                 IN  IF left
                     THEN /\ irq_enable' = [irq_enable EXCEPT !.RE = FALSE]
                          /\ hw' = ControlWritten(taken, irq_enable')
                     ELSE hw' = taken /\ UNCHANGED irq_enable
         ELSE UNCHANGED <<sp, irq_enable, hw>>
      /\ UNCHANGED <<build, host, call, seen>>

(* At most the room the control register showed is filled; room that is    *)
(* left over turns the transmit interrupt off.                             *)
IsrTransmit ==
  LET pending == (sp.tx_in - sp.tx_out) % BUF_LEN
      k       == Smaller(isr.space, pending)
      chars   == [i \in 1 .. k |-> sp.tx_buf[(sp.tx_out + i - 1) % BUF_LEN]]
  IN  /\ isr.at = "transmit"
      /\ isr' = [Away EXCEPT !.at = "control"]
      /\ IF isr.wi
         THEN /\ sp' = [sp EXCEPT !.tx_out = (@ + k) % BUF_LEN]
              /\ IF isr.space > k
                 THEN /\ irq_enable' = [irq_enable EXCEPT !.WE = FALSE]
                      /\ hw' = ControlWritten(DataWritten(hw, chars), irq_enable')
                 ELSE hw' = DataWritten(hw, chars) /\ UNCHANGED irq_enable
         ELSE UNCHANGED <<sp, irq_enable, hw>>
      /\ UNCHANGED <<build, host, call, seen>>

(* altera_avalon_jtag_uart_timeout: the alarm of every second.             *)
Timeout ==
  /\ isr.at = "off" /\ build.clock /\ ~build.small
  /\ IF AC THEN /\ hw' = [ControlWritten(hw, irq_enable) EXCEPT !.ac = FALSE]
                /\ sp' = [sp EXCEPT !.host_inactive = 0]
     ELSE /\ sp.host_inactive < INT_MAX - 2
          /\ sp' = [sp EXCEPT !.host_inactive = @ + 1]
          /\ UNCHANGED hw
  /\ UNCHANGED <<build, host, irq_enable, isr, call, seen>>

-----------------------------------------------------------------------------
(* The calls.  Running: the program runs, the interrupt routine does not.  *)
Running == isr.at = "off"
At(pc) == Running /\ call.at = pc
Goto(pc) == call' = [call EXCEPT !.at = pc]
Return == call' = Idle

(* A call of write or read with room for, or of, count characters.         *)
Begin ==
  /\ At("idle")
  /\ \E op \in {"write", "read"}, count \in Counts, nonblock \in BOOLEAN :
       /\ op = "write" => Promised + count <= MaxPut
       /\ call' = [Idle EXCEPT !.at = IF build.small THEN (IF op = "write" THEN "putSmall" ELSE "getSmall")
                                      ELSE (IF op = "write" THEN "put" ELSE "get"),
                               !.left = count, !.nonblock = nonblock]
  /\ UNCHANGED <<build, host, hw, sp, irq_enable, isr, seen>>

(* All places free from in on.                                             *)
FreeRunFull(in, out) == IF in < out THEN out - in ELSE BUF_LEN - in

(* The free part of the transmit ring that begins at in, in one piece, one *)
(* place short so that a full ring does not look empty.                    *)
FreeRun(in, out) ==
  IF in < out THEN out - 1 - in ELSE IF out > 0 THEN BUF_LEN - in ELSE BUF_LEN - 1 - in

(* write: the pointers are read; nothing left or no room ends the copying. *)
WriteSample ==
  LET n == Smaller(FreeRun(sp.tx_in, sp.tx_out), call.left)
  IN  /\ At("put")
      /\ call' = IF n = 0 THEN [call EXCEPT !.at = "kick", !.out = sp.tx_out]
                 ELSE [call EXCEPT !.at = "copyIn", !.in = sp.tx_in, !.n = n]
      /\ UNCHANGED <<build, host, hw, sp, irq_enable, isr, seen>>

WriteCopy ==
  /\ At("copyIn")
  /\ sp' = [sp EXCEPT !.tx_in = (call.in + call.n) % BUF_LEN,
                      !.tx_buf = [i \in DOMAIN @ |-> IF i \in call.in .. call.in + call.n - 1
                                                     THEN seen.written + i - call.in + 1 ELSE @[i]]]
  /\ seen' = [seen EXCEPT !.written = @ + call.n]
  /\ call' = [call EXCEPT !.at = "put", !.left = @ - call.n, !.in = 0, !.n = 0]
  /\ UNCHANGED <<build, host, hw, irq_enable, isr>>

(* The host counts as gone.                                                *)
Gone == sp.host_inactive >= sp.timeout

(* The transmitter is only started for a ring that is full.                *)
WriteKickLazy ==
  /\ At("kick")
  /\ irq_enable' = [irq_enable EXCEPT !.WE = call.left > 0]
  /\ hw' = ControlWritten(hw, irq_enable')
  /\ IF call.left > 0 /\ ~call.nonblock
     THEN call' = [call EXCEPT !.at = "putWait", !.gone = ~build.rereads /\ Gone] ELSE Return
  /\ UNCHANGED <<build, host, sp, isr, seen>>

(* Interrupts are off while the enables change, in memory and device.      *)
WriteKick ==
  /\ At("kick")
  /\ irq_enable' = [irq_enable EXCEPT !.WE = TRUE]
  /\ hw' = ControlWritten(hw, irq_enable')
  /\ IF call.left > 0 /\ ~call.nonblock
     THEN call' = [call EXCEPT !.at = "putWait", !.gone = ~build.rereads /\ Gone] ELSE Return
  /\ UNCHANGED <<build, host, sp, isr, seen>>

(* The loops look at what was read before them.                            *)
SeenAtEntry == call.gone

(* The waiting loops look at host_inactive, which is not volatile: a       *)
(* compiler may read it once, before the loop.                             *)
SeenGone == IF build.rereads THEN Gone ELSE call.gone

WriteWait ==
  /\ At("putWait")
  /\ call.out # sp.tx_out \/ SeenGone
  /\ IF sp.host_inactive > 0 THEN Return ELSE Goto("put")
  /\ UNCHANGED <<build, host, hw, sp, irq_enable, isr, seen>>

(* An empty ring taken for a full one.                                     *)
RunNeverEmpty(in, out) == IF in > out THEN in - out ELSE BUF_LEN - out

(* read: the run of received characters that begins at out.                *)
Run(in, out) == IF in >= out THEN in - out ELSE BUF_LEN - out

ReadSample ==
  LET n == Smaller(Run(sp.rx_in, sp.rx_out), call.left)
  IN  /\ At("get")
      /\ IF n > 0
         THEN call' = [call EXCEPT !.at = "copyOut", !.out = sp.rx_out, !.n = n]
         ELSE IF call.moved THEN Goto("open")
         ELSE IF call.left = 0 \/ call.nonblock THEN Return
         ELSE call' = [call EXCEPT !.at = "getWait", !.in = sp.rx_in, !.gone = ~build.rereads /\ Gone]
      /\ UNCHANGED <<build, host, hw, sp, irq_enable, isr, seen>>

(* The characters go to the caller, then their places are given up.        *)
ReadCopy ==
  /\ At("copyOut")
  /\ sp' = [sp EXCEPT !.rx_out = (call.out + call.n) % BUF_LEN]
  /\ seen' = [seen EXCEPT !.read = sp.rx_buf[call.out + call.n - 1]]
  /\ call' = [call EXCEPT !.at = "get", !.left = @ - call.n, !.out = 0, !.n = 0, !.moved = TRUE]
  /\ UNCHANGED <<build, host, hw, irq_enable, isr>>

ReadWait ==
  /\ At("getWait")
  /\ call.in # sp.rx_in \/ SeenGone
  /\ IF call.in = sp.rx_in THEN Return ELSE Goto("get")
  /\ UNCHANGED <<build, host, hw, sp, irq_enable, isr, seen>>

(* The receive interrupt stays off once it was turned off.                 *)
ReadReenableNot == /\ At("open") /\ Return /\ UNCHANGED <<build, host, hw, sp, irq_enable, isr, seen>>

(* Something was read: there is room again, whatever the interrupt routine *)
(* did meanwhile.                                                          *)
ReadReenable ==
  /\ At("open")
  /\ irq_enable' = [irq_enable EXCEPT !.RE = TRUE]
  /\ hw' = ControlWritten(hw, irq_enable')
  /\ Return
  /\ UNCHANGED <<build, host, sp, isr, seen>>

(* close drains the ring; it gives up when the host is gone, and at once   *)
(* if it may not block.                                                    *)
CloseBegin ==
  /\ At("idle") /\ ~build.small
  /\ \E nonblock \in BOOLEAN :
       call' = [Idle EXCEPT !.at = "close", !.nonblock = nonblock, !.gone = ~build.rereads /\ Gone]
  /\ UNCHANGED <<build, host, hw, sp, irq_enable, isr, seen>>

Close ==
  /\ At("close")
  /\ call.nonblock \/ sp.tx_out = sp.tx_in \/ SeenGone
  /\ Return
  /\ UNCHANGED <<build, host, hw, sp, irq_enable, isr, seen>>

(* ioctl: the time to wait can be set unless there is no alarm, when the   *)
(* host counts as present.  Connected is what TIOCGCONNECTED answers.      *)
SetTimeout ==
  /\ At("idle") /\ ~build.small /\ sp.timeout # INT_MAX
  /\ \E timeout \in 0 .. INT_MAX :
       sp' = [sp EXCEPT !.timeout = IF timeout >= 2 /\ timeout < INT_MAX THEN timeout ELSE INT_MAX - 1]
  /\ UNCHANGED <<build, host, hw, irq_enable, isr, call, seen>>

Connected == ~Gone

(* The small driver: write waits for room for every character, read for    *)
(* one character and takes what else there is.                             *)
SmallWrite ==
  /\ At("putSmall")
  /\ IF call.left = 0 THEN Return /\ UNCHANGED <<hw, seen>>
     ELSE /\ WSPACE > 0
          /\ hw' = DataWritten(hw, <<seen.written + 1>>)
          /\ seen' = [seen EXCEPT !.written = @ + 1]
          /\ call' = [call EXCEPT !.left = @ - 1]
  /\ UNCHANGED <<build, host, sp, irq_enable, isr>>

SmallRead ==
  /\ At("getSmall")
  /\ IF hw.rfifo # <<>> /\ call.left > 0
     THEN /\ seen' = [seen EXCEPT !.read = Head(hw.rfifo)]
          /\ hw' = [hw EXCEPT !.rfifo = Tail(@), !.pause_irq = FALSE]
          /\ call' = [call EXCEPT !.left = @ - 1, !.moved = TRUE]
     ELSE /\ call.left = 0 \/ call.moved \/ call.nonblock
          /\ Return /\ UNCHANGED <<hw, seen>>
  /\ UNCHANGED <<build, host, sp, irq_enable, isr>>

Program == \/ WriteSample \/ WriteCopy \/ WriteKick \/ WriteWait
           \/ ReadSample \/ ReadCopy \/ ReadWait \/ ReadReenable
           \/ Close \/ SmallWrite \/ SmallRead
Routine == Interrupt \/ IsrControl \/ IsrReceive \/ IsrTransmit
Host    == HostSends \/ HostPauses \/ HostTakes \/ HostLeaves

Next == Begin \/ CloseBegin \/ SetTimeout \/ Program \/ Routine \/ Timeout \/ Host

(* The processor runs, the second passes, and a host that is there takes   *)
(* what it is given and pauses when it has nothing to send.                *)
Fairness == /\ WF_vars(Program) /\ WF_vars(Routine) /\ WF_vars(Timeout)
            /\ WF_vars(HostTakes) /\ WF_vars(HostPauses)

Spec == Init /\ [][Next]_vars /\ Fairness

-----------------------------------------------------------------------------
(* The characters of a ring, the oldest first.                             *)
RingChars(buf, in, out) == [i \in 1 .. (in - out) % BUF_LEN |-> buf[(out + i - 1) % BUF_LEN]]

(* To the program's peer each direction is one stream: what was written    *)
(* comes out in order, once each, through ring, interrupt routine and      *)
(* FIFO; and so does what the host sent, while calls and interrupts cut    *)
(* into each other and the receive interrupt is turned off and on.         *)
Output == INSTANCE Stream WITH
  Room <- BUF_LEN - 1 + Depth, put <- seen.written, got <- seen.shown,
  transit <- hw.wfifo \o RingChars(sp.tx_buf, sp.tx_in, sp.tx_out)
Input  == INSTANCE Stream WITH
  Room <- BUF_LEN - 1 + Depth, put <- seen.sent, got <- seen.read,
  transit <- RingChars(sp.rx_buf, sp.rx_in, sp.rx_out) \o hw.rfifo

BothAreStreams == Output!Spec /\ Input!Spec

(* What was written is shown as long as the host stays: the interrupt that *)
(* would send it is never off while characters wait.                       *)
AllShown == seen.written > seen.shown ~> seen.written = seen.shown \/ ~host

(* What the host sent and paused after reaches a program that waits for    *)
(* it: the receive interrupt is never off while the ring has room.         *)
WaitingReaderGets ==
  (call.at = "getWait" /\ seen.sent > seen.read) ~> (call.at # "getWait" \/ ~host)

(* A write or a close ends: the host takes the characters or its absence   *)
(* is noticed, where there is an alarm and a time was not set to for ever. *)
CallsEnd ==
  (call.at \in {"put", "copyIn", "kick", "putWait", "close"})
     ~> (call.at = "idle" \/ sp.timeout >= INT_MAX - 1)
=============================================================================
