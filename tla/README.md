# Verification of the FPGA BLDC controller

This directory holds TLA+ models of the controller in `src/code` (Verilog, for a
DE0-Nano board), of the program of its soft processor
(`src/DE0_NANO/software/c_program`) and of the library that program runs on
(`src/DE0_NANO/software/c_program_bsp`), the TLC configurations that check them
on small instances, and proofs that TLAPS checks for every value of the
constants.

Contents: [1 the system](#1-the-system), [2 the models](#2-the-models),
[3 runs and bounds](#3-runs-and-bounds), [4 environment and
fairness](#4-environment-and-fairness), [5 proofs](#5-proofs), [6 what is not
covered](#6-what-is-not-covered), [7 plan](#7-plan), [8 how to run](#8-how-to-run).

## 1 The system

A potentiometer, read by an SPI converter, sets the duty cycle of a three-phase
bridge; three hall sensors tell the sector of the rotor and select which two of
six transistors conduct. The same hall lines, filtered, are counted for one
second to give a speed, which a soft processor writes to a character display.

```
KEY[0], KEY[1] --> ADC_CTRL U2 --ADC_data--> pattern_PWM U0 --> six gates
converter <--SPI-->    ^                        ^        ^
                    SPIPLL U1            SW[0] -+        |
hall lines ----------------------------------------------+
     |
     +--> edge_detection_wrapper U4 --> speed_calculation_wrapper U5 --rpm--> nios2_proc U3 --> display
                                                                                  |
                                                     JTAG UART, interrupt layer, system clock, files
```

The instance names are those of the top level, `code/DE0-NANO-TOP/DE0_NANO.v`,
which ties every reset low (line 128). The program on the processor uses the
library's sleep and, for its greeting, the console; interrupts, the system clock
and the file layer are the library underneath, built for this board's settings.

### Components

| component | state | operations | interacts with | hard behaviour | what makes it correct |
|---|---|---|---|---|---|
| commutation machine, `fw_rv_commutation.v` | `state_Q` (3 bits), `state_D` (a latch for two codes) | clock edge, change of the hall lines, change of the direction, reset | hall lines in, gates and PWM enables out | the inputs are not synchronised; the case statement has an empty default; no dead time | never two switches of one leg; never out of the six sectors; an advance exchanges one switch; a resting rotor is found |
| pulse-width modulators, `pwm_generator.v` | per instance a counter and the comparator's register | clock edge, change of the throttle, asynchronous reset | throttle in, a chopped enable out | the throttle is unbuffered; strict comparison at both ends; three copies must agree | exact duty cycle; no double pulse; the copies stay in step |
| bridge driver, `pattern_PWM.V` | of the two above | of the two above | composes one commutation and three modulators | a commutation or a flip of the direction in the middle of a period | one current loop at most; chops like one modulator |
| ADC controller, `ADC_CTRL.v` | `go_en`, `cont`, `m_cont`, `data`, `adc_data`, `led` | two clocks half a period apart, two asynchronous buttons | converter, throttle | gated clock, asynchronous clears of all but one register | whole readings of the right channel, none from before a stop; never runs while the stop is held |
| top level, `DE0_NANO.v` | none | wiring | everything | paths over several clocks | a stop reaches the gates; a setting arrives |
| hall filter, `edge_detection.v`, `clk_div.v`, `edge_detection_wrapper.v` | divider, 20 samples, 2-bit machine with a latch | clock edge, change of the line, reset | hall line in, edge counter out | reset synchronous to a clock it stops; latch at power-up; bursts of noise | believes a run of 20 samples and nothing less |
| speed counter, `speed_calculation.v` | gate counter, edge counter, handover register | oscillator edge, hall edge, reset | filter in, tables out | two clock domains; a level-sensitive clear decoded from 26 bits; 8-bit overflow | neither loses nor doubles an edge at the turn of the gate |
| speed averaging, `speed_calculation_wrapper.v`, `rpm_lut.v`, `divider_2.v` | three tables (latches above 200), two halving registers | clock edge, reset | counters in, processor out | a pipeline that mixes two gates; widths; a table that ends early | the mean within 1 rpm; never outside what the lines said |
| display program, `hello_world_small.c`, `alt_busy_sleep.c` | position in an endless loop, the number read, the output port | read, format, three writes and sleeps per byte | speed port in, display out | the display is busy after a clear; the speed changes meanwhile; a sleep is a counted loop | no byte lost, no two speeds mixed |
| interrupt layer, `alt_irq_*.c`, `alt_iic*.c`, `alt_irq_entry.S`, `alt_legacy_irq.h` | status.PIE, IENABLE, `alt_irq_active`, `alt_priority_mask`, the table of handlers, the stack of running routines | take an interrupt, dispatch, register, enable, disable one or all, let others in | devices; the UART driver and the system clock register with it | read-change-write of words that handlers share; acknowledgements that arrive late; nesting | no enable lost; only higher priorities nest; whole registrations dispatched |
| console driver, `altera_avalon_jtag_uart_*.c` | two ring buffers, a copy of the enable bits, the timeout | open, read, write, ioctl, close; interrupt routine; one-second alarm | UART with two FIFOs, interrupt layer, system clock | program, routine and alarm share the rings without a lock | each direction is a byte stream; nothing stays behind; calls end when the host is gone |
| system clock, `alt_tick.c`, `alt_alarm_start.c`, `alt_llist.h`, `alt_settod.c`, `alt_gettod.c` | the tick counter, a list of alarms with a wrap flag each, the time of day | tick, callbacks, start, stop, set and read the time | timer interrupt; the UART driver's alarm | the counter wraps; callbacks change the list that is being walked | each alarm on its tick; the list stays a ring; the time stays near what was set |
| file layer, `alt_open.c` to `alt_write.c` | lists of devices and file systems, the pool of descriptors with its high water mark | register, redirect, open, close, ioctl, fcntl, read, write, lseek, fstat, isatty | drivers, among them the console's | failures after a descriptor is taken; two searches that stop at different marks | descriptors and users agree; one holder; used as opened |
| PLL, `SPIPLL.v` | vendor | two clocks of 2 MHz, 250 ns apart | ADC controller | - | environment of `AdcCtrl` |
| earlier designs: `commutation.v`, `commutation1.v`, `pattern_generator.v`, `speed_computation.v`, `BLDC_speed_measurement/`, `PID.v`, `simple_filter.v`, `clk_div_5mhz.v` | registers of their own | clock and hall edges | not instantiated | see section 6 | see section 6 |
| rest of the library: formatted output and log, profiler, start-up and exceptions, flash, DMA, cache and stack helpers | - | - | - | - | not modelled, see section 6 |
| processor system, board layout, IDE metadata | - | generated | - | - | not modelled |

### Hazards

`PROJECT.json` lists, at its line, what in this code is hard to reach with a
simulation or a test, and the property that would catch it going wrong. The main
groups:

* *unsynchronised inputs*: hall lines (`fw_rv_commutation.v:40`), buttons
  (`ADC_CTRL.v:42`), the clear of the edge counter (`speed_calculation.v:32`);
* *latches from empty defaults*: `fw_rv_commutation.v:87`,
  `edge_detection.v:45`, `rpm_lut.v:212`;
* *steps in the middle of something*: a throttle or a commutation in the middle
  of a period, a stop in the middle of a frame, an edge at the turn of a gate, a
  speed that changes while its digits are sent;
* *words shared with interrupt routines*: the rings and the enable bits of the
  console (`altera_avalon_jtag_uart_write.c:109`, `..._init.c:161`), the words
  behind IENABLE (`alt_legacy_irq.h:75`), the handler and context of the table;
* *late or missing answers*: an acknowledgement still on its way when the
  dispatcher looks again (`alt_irq_handler.c:141`), a host that leaves while a
  writer waits (`altera_avalon_jtag_uart_write.c:187`);
* *operations that change what they stand in*: callbacks that start and stop
  alarms during the walk (`alt_tick.c:102`), an open that fails half way
  (`alt_open.c:161`);
* *boundaries*: throttle 0 and 255, edge 256, entries 123 and 201 of the table,
  the wrap of the tick counter, the high water mark of the pool.

Some hazards are real and have no property, because the code makes no promise
that could be stated: a direction flip without dead time, a handler that enables
interrupts after it has made itself interruptible. Their notes say why each is
outside the models.

## 2 The models

| module | models | kind |
|---|---|---|
| `Commutation` | `fw_rv_commutation.v` | component |
| `PwmGenerator` | `pwm_generator.v`, any number of instances | component |
| `PatternPWM` | `pattern_PWM.V`: `Commutation` and `PwmGenerator` on one clock and reset | composition; implements a single `PwmGenerator` |
| `AdcSample` | what the ADC controller promises | abstract specification |
| `AdcCtrl` | `ADC_CTRL.v` and the converter | component; implements `AdcSample` |
| `DriveSystem` | `DE0_NANO.v`, U0 and U2: `AdcSample` and `PatternPWM` | composition |
| `Debounce` | what a hall filter promises | abstract specification |
| `HallFilter` | `edge_detection.v` with `clk_div.v`, one line | component; implements `Debounce` |
| `SpeedCalculation` | `speed_calculation.v` | component |
| `SpeedChannel` | `DE0_NANO.v`, U4 and U5, one line: `HallFilter` and `SpeedCalculation` | composition |
| `SpeedAverage` | `speed_calculation_wrapper.v`, `rpm_lut.v`, `divider_2.v` | component |
| `Display` | `hello_world_small.c`, `alt_busy_sleep.c` and the display | component |
| `Interrupts` | `alt_irq_handler.c`, the test in `alt_irq_entry.S`, `alt_irq_register.c`, `alt_iic.c`, `alt_iic_isr_register.c`, `alt_legacy_irq.h`, `sys/alt_irq.h` | component |
| `JtagUart` | `altera_avalon_jtag_uart_{init,read,write,ioctl,fd}.c` in both its forms, the UART `nios2_proc_jtag_uart.v`, the host | component; implements `Stream` twice |
| `Stream` | a byte stream with bounded room | abstract specification |
| `SystemClock` | `alt_tick.c`, `alt_alarm_start.c`, `alt_llist.h`, `alt_settod.c`, `alt_gettod.c` | component |
| `Files` | `alt_open.c`, `alt_close.c`, `alt_ioctl.c`, `alt_fcntl.c`, `alt_read.c`, `alt_write.c`, `alt_lseek.c`, `alt_fstat.c`, `alt_isatty.c`, the pool (`alt_get_fd.c`, `alt_release_fd.c`, `alt_fd_lock.c`, `alt_fd_unlock.c`), the lists (`alt_find_*.c`, `alt_fs_reg.c`, `alt_dev_llist_insert.c`), `alt_io_redirect.c`, `alt_main.c` | component |
| `MCReading` | `SpeedCalculation`, `SpeedAverage` and `Display` in one run: each moves while the other two rest | for TLC |
| `MCSystemClock` | `SystemClock` with alarms and time of day side by side | for TLC |
| other `MC...` | values for the constants | for TLC |
| `DrivePartsProofs` | theorems about `Commutation` and `AdcCtrl` | for TLAPS |
| `DriveProofs` | about `PwmGenerator` and `DriveSystem` | for TLAPS |
| `ChannelProofs` | about `HallFilter` and `SpeedChannel` | for TLAPS |
| `ReadingProofs` | about `SpeedCalculation`, `SpeedAverage` and `Display` | for TLAPS |
| `InterruptsProofs`, `ConsoleProofs`, `SystemClockProofs`, `FilesProofs` | about `Interrupts`, `JtagUart`, `SystemClock`, `Files` | for TLAPS |

How the hardware is represented:

* *One action per event.* A clock edge is one action that updates every register
  of its domain from the values before the edge (the nonblocking assignments); a
  change of an input is an action of its own and may come between any two edges.
  Combinational logic is an operator, except where an incomplete case makes it a
  latch: then it is a variable (`state_D`, `table`) that every action which moves
  an input of the logic re-evaluates.
* *Asynchronous clears* are part of the action that raises them: `PressRST`
  clears all registers that `go_en` clears, `ResetChange` clears the counters of
  the modulators and of the divider. Synchronous ones act at the next edge.
* *Clock domains.* `AdcCtrl` has the two phases of the PLL as two alternating
  actions. `SpeedCalculation` lets the oscillator and the hall line interleave
  freely; its `Clocked(edge)` is also used by `SpeedChannel`, where the line is
  driven from the same oscillator and so rises just after an edge.
* *Set-up violations.* With `HallSkew`, `Commutation` lets a hall line move
  inside the set-up window: every bit of `state_Q` takes the old or the new next
  state (`Mix`), and the latch, if it closes, holds any such mixture. With
  `DecodeGlitch`, `SpeedCalculation` lets the decoder of `count = 0` glitch where
  the gate counter reaches a power of two, the steps in which all its ones go out.
* *Widths.* Counters wrap at their widths (`Period`, `Divide`, `Wrap`, `% 16`,
  `% 2048`), which are constants where the bound matters for the state space.

How the library is represented:

* *Steps.* Where a call and an interrupt routine share memory, the call is taken
  apart at its accesses: `JtagUart` has one action per sample of the pointers,
  copy, kick and wait, and three per pass of the routine; `Interrupts` has one per
  write of `alt_irq_active`, IENABLE and the two words of a table entry. Where
  the code disables interrupts around a sequence (starting and stopping an alarm),
  the sequence is one action. The file layer has no concurrency (`os/alt_sem.h`
  defines its semaphore away), so a call is one action.
* *Interrupts* nest: `frames` is the stack of running routines. A taken interrupt
  comes before the program's next step (`Taken`). A handler's acknowledgement is
  *posted* and arrives later; the read back that the UART's routine makes waits
  for it (`ReadBack`).
* *Callbacks* of alarms may start and stop alarms before they return, at any
  point of the walk of `alt_tick`.
* *Copies.* The console driver keeps the enables of its interrupts in memory
  (`irq_enable`) and writes them to the device (`ien_AF`, `ien_AE`); the routine
  and the calls change the one and then write all of it to the other, with
  interrupts disabled or in the routine itself.
* *Failures.* In `Files` a driver's open succeeds or fails as it likes, and an
  open may end at every one of its early returns. In `JtagUart` the host may
  leave at any time, for good.
* *Data.* A name is the sequence of its path components, a character is its place
  in its stream, a driver is the set of functions it implements.
* *Builds.* The program is built with the small UART driver and with direct
  drivers (`ALTERA_AVALON_JTAG_UART_SMALL`, `ALT_USE_DIRECT_DRIVERS`), which leave
  the pool and the rings out. Both forms are in the repository and modelled:
  `build.small` in `JtagUart` selects the form, and `KeepsAccess` in `Files`
  relates the direct calls to those through the pool: on a redirected stream they
  reach the same driver or none. The errors they end with differ (`EACCES` for
  `EBADFD`, `ENOTSUP` for `ENOSYS`) and are not compared.

*Histories.* `highs`, `held`, `sampled`, `since`, `run`, `seen` to `lost`, `old`,
`age`, `reading`, `missed`, `wanted`, `due`, `wall` and `owned` are not in the
code; they record what the properties compare with. Nothing modelled depends on
one of them, except for three bounds: `MaxEdges`, the distance of two gates in
`SpeedAverage` (`age`), which a gate of 50,000,000 clocks exceeds by far, and
`WithinATurn` in `SystemClock` (`due`); and
except for `Usable` in `Files`, the descriptors a program may use, which is the
environment's promise and not the library's test.

Definitions next to the modelled ones whose comment describes a wrong version of
the code (`NextStateEager`, `DeliverEarly`, ...) are plausible mistakes; putting
one in the place of the definition it is named after must make TLC report the
property that `PROJECT.json` names for it. No action uses them.

## 3 Runs and bounds

| run | module | instance | distinct states |
|---|---|---|---|
| `commutation` | `MCCommutation` | all eight hall codes, both directions, reset, torn captures | 704 |
| `drive_system` | `MCDriveSystem` | period 4, three neighbouring sectors and an invalid code, any throttle at any instant, both buttons, reset | 31,104 |
| `adc_ctrl` | `MCAdcCtrl` | channel 5, three conversions, both buttons at any half period | 2,296 |
| `speed_channel` | `SpeedChannel` | 4 samples of 4 clocks, 64 clocks per gate, a counter of 3 bits, noise at any clock, reset | 151,760 |
| `speed_reading` | `MCReading` | 7 clocks per gate, 5 edges, a counter of 2 bits, glitches; counts 0, 1, 123, 200, 255 on three lines; speeds of 1 to 4 digits, a processor of 50 MHz, a loop of 9 clocks, a display busy for 2 ms | 150,874 |
| `files` | `MCFiles` | a pool of five, a device with and one without an open function, a file system, an unknown name | 54,852 |
| `console` | `JtagUart` | rings of 3, FIFOs of 2, three characters, both builds, with and without a clock | 437,668 |
| `system_clock` | `MCSystemClock` | three alarms, a counter of 4 values, a second of 3 microseconds and 1 or 2 ticks | 482,661 |
| `interrupts` | `Interrupts` | three interrupts, two handlers, two nested disables | 180,912 |
| `files_lock` | `MCFiles` | as `files`; refutes `LockMeansAlone` | - |
| `clock_stop` | `SystemClock` | as `system_clock`; refutes `StoppedIsSilent` | - |
| `clock_time` | `SystemClock` | as `system_clock`; refutes `ReadsAsSet` | - |

### What the runs show

* **The bridge is never shorted by its logic.** `OnePhasePair` holds even for
  captures torn by a moving hall line, since the gates are decoded from one
  register and every code decodes to one pair or none. What tearing *can* do is
  leave the machine in one of the two codes without a row, where it may stay for
  good: `TornOnlyBetweenDAndE` shows that for a rotor that advances by one sector
  this takes the boundary of D (011) and E (100), the one where all three bits of
  the code change. A Gray code would remove it.
* **No dead time is needed while the rotor advances** (`AdvanceMovesOneSwitch`).
  The property is restricted to neighbouring sectors and a steady direction: for
  a direction flip or a jump it is false.
* **The three modulators look like one** (`ChopsAsOne`): the refinement maps the
  one generator's counter to that of leg a and its output to "some high side is
  on". A commutation in the middle of a period leaves no gap and adds no pulse.
* **A stop is safe at any phase of the SPI frame.** `m_cont` survives a stop, so
  after a quick restart one bit of the new frame goes to the wrong place. The
  run shows why it does no harm: the bit is one of the zeros the converter leads
  with, and `led` is taken over only after all twelve bits are rewritten
  (`WholeReadings`). The same refinement says that the controller never runs while
  the stop is held, nor by itself after it is released, whatever the phase of the
  two clocks at which either button moves. A stop takes effect one clock of 50 MHz later, and a stopped
  drive never turns on by itself (`StoppedMeansOff`).
* **The reset branches of the hall filter are dead code** (`ResetNeverReaches`):
  the reset stops the divider that would clock them. Hence the filter depends on
  the code its output register powers up to (theorem `PowerUpIsFinal`).
* **No edge is lost at the turn of the gate, but only because two numbers fit.**
  The edge counter is held clear for the whole clock in which `count = 0`.
  `NoEdgeLost` holds because a gate of 50,000,000 clocks is a whole number of
  sample periods of 16, so the filter's output always moves in the middle of a
  sample period and never in that clock. With a gate of one clock more, as the
  earlier `speed_computation.v` has, TLC finds a lost edge.
* **The displayed speed is the mean of the lines within 1 rpm**, with line c
  weighted twice (`MeanWithinOne`); counts above 200 leave a table at an older
  value, but the output never leaves the range of what the lines have said in
  the last two gates (`NoOvershoot`).
* **The sleeps of the display program suffice** (`NothingMissed`): the loop of
  `alt_busy_sleep.c` runs whole passes per microsecond and so sleeps a tenth less
  than asked. Three of them pass between the fall of E that starts a clear and the
  next fall, at least 2.46 ms, and that is enough for a clear of 2 ms.
* **The pool and its users agree** (`OwnersOnly`) through opens that fail half
  way, the copy and release of the redirection, and reuse. **Two descriptors never
  hold one device** (`OneHolder`), nor does another come to refer to a device that
  is held (`LockKeepsOthersOut`), although `alt_fd_lock` looks at one descriptor
  too few: what it misses can only lie above the holder, so the missed one cannot
  itself be granted the lock.
* **Program and interrupt routine share the rings of the console without a lock
  and lose nothing** (`BothAreStreams`: each direction refines `Stream`), and no
  character stays behind, because every path that leaves one also leaves the
  interrupt on that will move it (`AllShown`, `WaitingReaderGets`).
* **Alarms come on their tick across the wrap of the counter** (`CalledOnTime`),
  and the list stays one ring of the running alarms (`RingOfRunning`), whatever
  callbacks start, stop and start anew, the alarm that is being called and the one
  the walk has noted as its next included.
* **There is one way for the timer's interrupt never to return**
  (`TickReturnsAtLast`): its walk stands at an alarm that a callback has taken out
  of the list (`Astray`). In every other case it comes back to the head.
* **The time of day is never two seconds off** (`NeverFarOff`), although the
  microseconds go wrong when a product overflows and the rate need not divide the
  second: the seconds are kept apart from that product. The claim ends where the
  tick counter wraps, after which the library's time starts over.
* **Enables and disables add up** (`NoUpdateLost`), **interrupts nest upwards
  only** (`NestsUpwards`), and **the dispatcher's inner loop, which has no exit of
  its own, always finds something** (`DispatchesWhole`): the read back at the end
  of the UART's routine is what makes it so.

### Where the code and its comments part

Three runs must fail; they are the findings of `PROJECT.json`.

* `files_lock`: `alt_fd_lock.c:61` stops before the high water mark, so a lock is
  granted while the descriptor at the mark refers to the same device; its comment
  says only a descriptor alone with its device gets it.
* `clock_stop`: a callback that stops the alarm behind its own. The walk has read
  that link already (`alt_tick.c:102`) and calls the stopped alarm, or, if its time
  has not come, follows its link to itself for ever; `alt_alarm.h:73` says that
  `alt_alarm_stop` unregisters a callback. The other conclusions about the alarms
  hold all the same, and `TickReturnsAtLast` names this case.
* `clock_time`: `alt_settod.c:84` multiplies in 32 bits what `alt_gettod.c:93`
  multiplies in 64. From 2^32 microseconds (72 minutes) on, the time read at once
  is not the one that was set, as the comment at `alt_settod.c:61` promises.

Two more places bound what the passing runs promise. Each bound is a constant or
a guard of its own, and moving it makes TLC show what happens beyond it:

* *Waiting for a host that is gone.* `host_inactive` is not volatile
  (`altera_avalon_jtag_uart.h:99`). If the compiler reads it once before a waiting
  loop, which the language allows, the call does not end. `Rereads = {FALSE}` in
  `MCJtagUart.cfg` is that build, and `CallsEnd` fails.
* *Enabling from an interruptible handler.* `alt_irq_enable` and
  `alt_irq_disable` (`alt_legacy_irq.h:76` and `94`) write IENABLE without the
  priority mask. A handler that calls one after `alt_irq_interruptible` can be
  interrupted by a lower priority. `HandlerSets` is guarded by
  `alt_priority_mask = IRQs`; without the guard `NestsUpwards` fails.

### Why the bounds are enough

The commutation is finite and complete. The throttle, the sample count and the
dividers only enter comparisons, wrap-arounds and "all / any", so a period of 4,
runs of 4 samples and a divider of 4 contain the first, a middle and the last
case; the theorems of section 5 remove these bounds for the safety of the modulators,
the drive, the filter, the counter and the channel. The ADC's conversions are full
scale and the two alternating patterns, which differ from each other and from their
shifts and mixtures in every bit; the theorems hold for all conversions and
channels. In `speed_channel` the gate is 16 sample periods and edges come on both
sides of the turn. In `speed_reading` the edge counter of 2 bits overflows within a
gate of 5 edges (`MaxEdges`), and the gate passes the powers 2 and 4; of the counts,
0 and 1 give the rounding cases, 123 is the odd entry of the table, 200 the last,
255 an unlisted one; the display has the board's own numbers. Its three parts share no
variable, each takes whatever the one before may hand it, and each property is
about one part: so `MCReading` moves one at a time instead of multiplying their
states. The theorems are about each part by itself and take any counts.

In `files` two descriptors beside the standard streams are the fewest with one
below the high water mark and one at it; with three streams on the same device
that makes five that may share it. Theorems remove the bound. In `console` the
rings (two characters and the free place) and the FIFOs overflow within the three
characters of `MaxPut`, and `Starts` puts the rings where their indices wrap. In
`system_clock` the longest delay and the longest period each take an alarm across
a wrap of the counter, and three alarms are the fewest with one before, one at and
one after the place where the walk stands. No alarm is timed a whole turn of the
counter ahead (`WithinATurn`), 49 days at 1000 ticks per second. `MCSystemClock` starts alarms
only while the time of day is as it was and sets the time only while no alarm has
been started, since the two share only the counter and its rate, which neither of
them moves; the two failing runs and the theorems are about `SystemClock` itself.
The times, rates and the counter are such that the product overflows, and that a tick is
not a whole number of microseconds. Theorems remove these bounds of both for the safety
properties. In `interrupts` three priorities are the fewest with one
above and one below a running handler; two handlers let a registration replace
another; theorems remove the bounds for the safety properties.

## 4 Environment and fairness

* *Fairness of the hardware.* The oscillator and the PLL never stop: weak fairness
  of the clock actions. The loop of the display program waits for nothing: weak
  fairness of its writes and reads. In `DriveSystem`, `Deliver` is fair because
  `TracksInput` holds of the controller. Hall lines, switches, buttons, resets and
  throttle are never fair; the liveness properties state as hypotheses what has to
  stand still.
* *Fairness of the library.* The processor executes: weak fairness of the
  program's and the interrupt routine's steps. In `JtagUart` the timer of the
  alarm is fair (`Timeout`) where the build has a clock, and a host that is there
  takes what it is given and signals a pause; that the host stays is never
  assumed. In `SystemClock` an interrupt routine that has begun goes on and every
  callback returns; ticks, starts and stops are not fair. In `Interrupts` a posted
  write arrives, a running routine goes on, and the program does not keep
  interrupts disabled for ever (strong fairness of `EnableAll` at each depth,
  because interrupts may come in between); devices are not fair.
* *Power-up.* Registers without an initial value power up low, as the device's
  do; the hall filter's machine, which is encoded by synthesis and has no state of
  code 0, powers up in A (code 1). A latch may hold anything its logic allows.
  The theorems about the filter hold for every power-up code unless they say so.
* *Reset.* The board ties it low. The component runs let it move all the same,
  at any instant; in `SpeedChannel` a pulse lasts until a clock edge has seen it.
* *The converter* of `AdcCtrl`: frames of 16 clocks while the chip select is low,
  address at rising edges 3 to 5, four zeros and twelve bits at falling edges.
* *The display*: takes a byte when E falls, is busy for 2 ms after a clear (the
  data sheets of such displays say 1.52) and for less than the shortest sleep
  after anything else.
* *The UART*, from `nios2_proc_jtag_uart.v`: two FIFOs, an interrupt at a fill
  level (`Threshold`), a pause interrupt that any read of the data register ends.
  The host at its other end is external.
* *Programs* use the library as its documentation asks: they pass descriptors they
  were given, do not start an alarm that runs, and pair disables with enables.
* *Torn throttle.* `led` is registered on the SPI clock and compared on the
  oscillator; the models move it as a whole.

## 5 Proofs

All are proved by TLAPS with the SMT, Zenon and PTL backends. Each safety property
of the passing runs, invariant, action property or refinement, is the conclusion
of a theorem.

The proofs use the named assumptions on the constants: `CommutationAssumption`,
`HallAssumption`, `OneGeneratorPerLeg`, `PwmAssumption`, `FilterAssumption`,
`GateAssumption`, `WholeSamplesPerGate`, `SpeedAssumption`, `AverageAssumption`,
`DisplayAssumption`, `AdcAssumption`, `ClockAssumption`, `JtagAssumption`,
`InterruptAssumption`, `FilesAssumption` and `StreamsAssumption`. TLC evaluates
each of them in the runs of its module. They say what kind of value a constant is,
with two that are facts about the board: `WholeSamplesPerGate`, the gate of `speed_calculation.v` is a whole number of
sample periods of `clk_div.v`, and `StreamsAssumption`, the driver behind the
standard streams has the functions of the console's and no others.

`DrivePartsProofs` and `ReadingProofs` prove about components that share no
variable, one part for each. Their specifications have names of their own
(`GateSpec`, `DisplaySpec`, `AdcSpec`), so that one module can extend several.

`EveryByteTaken` and `OneReadingShown` have a hypothesis besides, and the run lies
inside it: `ClearsInTime`, the display clears within three of the shortest sleeps
the loop can make of 1 ms, 2.46 ms with 50 MHz and 9 clocks per pass. A slower
display would miss a byte.

In each module the inductive invariant is an operator of its own, first checked
by TLC, and every action has its step.

`DrivePartsProofs`, first part (`Commutation`: any power-up codes, hall codes and
reset levels):

* `TypeCorrect`: `TypeOK` is inductive; for a torn capture the leaf is that `Mix`
  of two codes is a code.
* `NeverShoots`: `OnePhasePair` follows from `TypeOK`, since it only depends on
  the code and the direction; the lemma `PairOfSector` computes the pair of every
  sector.
* `AdvanceIsSafe`: from `PairOfSector` and the arithmetic of neighbours.
* `StaysInSector` (assuming no skew and a power-up in a sector): `InSector` is
  inductive only together with its second conjunct, that the latch `state_D`
  holds a sector too.
* `TornWhereAllBitsChange` is the corresponding statement with skew. Its invariant
  `DrivenToSector` says that a machine in a sector is driven to one, so an ordinary
  edge does not leave the sectors. A mixture of two neighbours with both upper bits
  set needs one word with the middle bit (2 or 3) and one with the upper bit (4 or
  5), and only 3 and 4 are neighbours (`MixOfNeighbours`).

Second part (`AdcCtrl`: any conversions, any channel):

* `AdcInvariant`: `AdcInv` puts controller and converter in step. While it runs,
  `cont` and the converter's own count of clocks agree, and so does `m_cont`
  between a falling and a rising edge, except in the first half clock after a
  start that came while the clock was low; then `m_cont` is left over from the
  frame that was stopped, and the register is clear (`FrameInStep`). The line
  carries the bit the converter's count says (`Sent`), the bits above the lowest
  one stored are the frame's (`Gathered`), outside the twelve data clocks the
  register still holds the last whole reading (`KeptWhole`), and what was heard of
  the address is the channel's (`Heard`).
* `ReadingsAreWhole`, the refinement of `AdcSample`: the last clock of a frame
  completes a reading, `led` takes it over in the next frame while the register
  still holds it (`KeptWhole`), every other edge is a stutter, and the stop clears
  both sides (`Cleared`). The misplaced bit after a restart falls on a
  register of zeros and is itself one of the leading zeros.
* `ChannelIsHeard` is a part of the invariant.

`DriveProofs`, first part (`PwmGenerator`: any set of instances, any period):

* `Invariance`: the invariant adds to `TypeOK` that a steady period has been on
  for `min(count, throttle)` clocks, that the last compared throttle explains the
  output, and that the instances agree. From it `DutyIsExact` (at the wrap the
  minimum is the throttle), `StayInStep` and `OnePulsePerPeriod`.

Second part (`DriveSystem`: any period, readings and hall codes):

* `GeneratorStep`, `DriveRunsGenerators`: every step of the drive is a step of
  the three modulators or leaves them alone, so all that the first part shows of
  them is reused and not proved again.
* `DriveInvariance`: `DriveInv` is the modulators' invariant with two more parts:
  the machine is in a sector (`Sectors`), and a stopped controller has a reading
  and a throttle of zero (`StoppedIsZero`), without which the clock after the stop
  could chop an old throttle.
* From it `OneLoopAlways` (a pair of gates per sector, and low sides not chopped),
  `DriveDutyExact`, `StopHolds`, and `DriveChopsAsOne`, the refinement: the
  modulators agree, so whichever leg the machine selects shows the same output.

`ChannelProofs`, first part (`HallFilter`: any length of the shift register, any
even divider):

* `Invariance`: `run` samples at the end of `Q` are equal; the next state is
  determined by `z`, `run` and the last sample; after a move of the output, the
  older samples still show the run that caused it.
* `Refinement` (power-up in A): every rising edge of the divided clock maps to
  `Debounce!Sample` of the line's value, everything else to a stutter.
* `PulsesAreLong` (power-up in A or B), `ResetIsDead` (the divider at zero under
  reset cannot rise) and `PowerUpIsFinal`.

Second part (`SpeedChannel`: any gate of whole sample periods):

* `EdgesAllCount`: the invariant `InPhase` says that the divider is the gate
  counter modulo `Divide` (and zero in reset). So at the turn of the gate the
  divider is at zero, where it cannot rise, and the filter's output stands still.

`ReadingProofs`, first part (`SpeedCalculation`: any gate, width of the counter and
number of edges):

* `SpeedInvariance`: `SpeedInv` adds to the properties `ClearAtZero`: while the
  gate counter is at zero nothing has been counted, because the level-sensitive
  clear holds. The overflow of the edge counter is the lemma `PlusOneMod`
  (`(x % w + 1) % w = (x + 1) % w`), which needs uniqueness of quotient and
  remainder (`QuotientUnique`), nonlinear and so proved by hand.
* `HandoverExact` and `GlitchesOnlyLose` are parts of it.

Second part (`SpeedAverage`: any counts of 8 bits):

* `AverageInvariant`: the tables show the entry of every listed count
  (`TablesFollow`), the registers lag by one and by two clocks (`Settled`), and
  whatever bounds the tables, before and after the last gate, bounds the registers
  (`Between`). The last is quantified over the bounds, since which table is the
  lowest changes with every gate.
* `SpeedIsTheMean` follows from `Settled`, by the arithmetic of two halvings;
  `SpeedNeverOvershoots` from `Between`, with the smallest and the largest table
  as bounds.

Third part (`Display`: any clock, any loop that sleeps, any display that is fast
enough):

* `SleepIsLong`: a sleep lasts at least `us * (ALT_CPU_FREQ - cycles_per_loop)`
  clocks, through the division into long loops and a rest that
  `alt_busy_sleep.c` makes.
* `DisplayInvariant`: in each of the three places of a byte the display is busy for
  no longer than the sleeps still to come (`InTime`), only commands go out before
  the loop (`Starting`), and in it the characters shown and those still to send
  make up the message of the value read (`Looping`). `EveryByteTaken` and
  `OneReadingShown` follow.

`SystemClockProofs` (any alarms, any width of the counter, any delays and periods,
any rates and times, any callbacks):

* `ClockInvariant`: `IInv` has a part for the list and one for the walk. The links
  of the running alarms are each other's inverse and lead from the head to all of
  them (`Ring`; reachability is stated by closed sets and needs no recursion).
  During a walk every running alarm is either settled, due in the future with its
  flag as it should be, or still as the tick found it, in the tick after the wrap
  with its flag yet to be cleared; the one that is called is due now (`Timed`). And
  either there is a piece of the ring from the head to where the walk goes on, in
  which all is settled (`Region`, `Past`), or the walk is bound for an alarm that
  was stopped and is linked to itself (`Stranded`), from which no step leads on.
  Callbacks move the piece's ends: an alarm that starts enters behind the head
  (`RegionInsert`, `PlaceInsert`), one that stops leaves it or strands the walk
  (`RegionRemove`, `PlaceRemove`).
* `RingIsKept` is a part of it. For `AlarmsAreOnTime`, a walk that ends stands at
  the head, where the piece is the whole ring (`RegionEnds`), so nothing due is
  left.
* `TimeIsNeverFarOff` needs another invariant, `ResetInv`: what was noted is the
  time set less the whole seconds counted since, and less some part of a second,
  whichever it is. So it takes the overflowing product at any value. The leaves are
  nonlinear arithmetic of quotients and remainders.

`InterruptsProofs` (any number of interrupts, handlers and nested disables):

* `InterruptInvariance`: `IInv` says how the words belong together for every
  stack: each running routine is above all it interrupted, a routine's mask is
  what was enabled and more urgent than those below it (`Levels`), IENABLE is
  `alt_irq_active` within the topmost mask except in the step between the two
  writes, and where the program stands in a call. `OnlyHigherNest` and
  `EnablesAddUp` follow.
* `AlwaysDispatchesWhole` needs a second invariant, `Served`: what is enabled has
  a whole table entry (`Table`), a posted acknowledgement belongs to a routine that
  still waits for it (`OnTheirWay`), and a dispatcher that is about
  to search has something to find (`Found`). The last is inductive only with the
  read back of the handlers: without it a posted acknowledgement may arrive
  between the test for pending interrupts and the search.

`ConsoleProofs` (any rings and FIFOs, both builds, with and without a clock):

* The invariant `ConsoleInv` says where the characters are. What was written and
  not yet shown stands in the FIFO and, behind it, in the ring, with consecutive
  numbers (`Transmitting`); what came from the host and was not yet read, in the
  ring and then in the FIFO (`Receiving`). It is inductive only with what
  makes the unlocked sharing work: the places a call is about to copy to are still
  free, and those it is about to copy from still hold what it saw, since the
  routine only moves the other index (`InCall`); the FIFO still has the room the
  routine read in the control register (`InRoutine`); and the small driver leaves
  rings and interrupts alone (`SmallOnly`).
* `EachEndIsAStream`: the characters on the way are the numbers between the two
  ends, whatever part of them is in the ring (`NumberedJoin`), so a step that moves
  one within is a stutter of `Stream`, and one at an end is its put or take. A
  step moves at most one end of a direction (`OnlyGrows`). The wrap of the rings is
  the lemmas `Wraps`, `RingTake` and `RingGrows`.

`FilesProofs` (any pool of at least four, any devices, file systems and names):

* `FilesInvariance`: `IInv` says that used descriptors lie at or below the mark
  and free ones are without traces (`Marked`), that none holds a device before
  `main` (`Fresh`), that users and pool agree (`Owners`), and that the only companion a holder may have lies above it
  (`Companions`). The last makes the one-too-few of `alt_fd_lock` harmless for
  `OneHolder`: the search misses the descriptor at the mark only, so two holders
  would each have to be above the other.
* `PoolIsOwned`, `HoldsAlone` and `OthersStayOut` follow from it.
* `AccessIsKept` adds `Streams`: once the streams are redirected, each is on the
  null device or has the mode it was redirected with, since no call gives one of
  them out anew. The rest is which functions of the streams' driver a call reaches,
  through the pool and directly.

*Only model-checked* is liveness: `SettlesOnRotor`, `ThrottleArrives`,
`TracksInput`, `FollowsHall`, `ShowsTheSpeed`, `AllShown`, `WaitingReaderGets`,
`CallsEnd`, `TickReturnsAtLast` and `UrgentServed`. Each rests on fairness, and
with ENABLED that is outside the prover's reach. `LockMeansAlone`,
`StoppedIsSilent` and `ReadsAsSet` are refuted.
*Only proved*, and not a property of a run: the type theorems, `StaysInSector`,
`StayInStep`, `OnePulsePerPeriod`, `DriveRunsGenerators`, `PulsesAreLong`,
`PowerUpIsFinal`.

## 6 What is not covered

* Electrical facts: pulse widths, metastability that lasts longer than a clock,
  switching times of the bridge.
* The accuracy of the speed: the model shows that edges are counted, not that a
  motor has 15 of them per revolution, which the table's factor 4 amounts to.
* The earlier designs of section 1, which the top level does not instantiate.
  Noted while reading: in `commutation1.v` line 102 an invalid code in state E
  leads to C instead of holding; `simple_filter.v` never takes over the sample at
  address 3ff; the gate of `speed_computation.v` is 50,000,001 clocks long;
  `top_speed_mac.v` uses its reset with both polarities, so its `toggle` never
  rises while the other registers run.
* Generated and vendored parts: PLL, processor system, board.
* The rest of the library. Formatted output and log are text without state, and
  the log is compiled out. The profiler is compiled out and its counters are
  written from code the compiler inserts. Start-up, exit and the exception entry
  are assembly and linker sections that run once, before or after everything
  modelled here (the one decision in the entry that matters, whether an
  exception is an interrupt, is in `Interrupts`). Flash, DMA, cache and stack
  helpers serve devices and settings this board's processor does not have. Headers
  declare and name; of the 14,051 lines of C in the repository about a third are
  code, the others comments, declarations and macros, or compiled out, so the
  models stand for the larger part of the code with states of its own and yet for
  a small share of all lines.
* Concurrency of the file layer: its locks are macros without effect in this
  build (`os/alt_sem.h`), and no interrupt routine of the repository calls it.

## 7 Plan

Left, models:

1. `EarlierCommutation`: the three earlier machines on the same hall lines and
   clock as `fw_rv_commutation`; where they agree and where they part.
2. `EarlierSpeed`: `speed_computation` and `top_speed_mac` beside the counter
   that replaced them; edges lost per gate, widths of the product by 60.
3. `SimpleFilter` (minimum of a window) and `PID` (closed form of the recurrence
   modulo 2^16).
4. `HallFilter` for three lines at once, with the order of edges of a rotor.

Left, proofs: none of a safety property of a run; each is stated by a theorem.
Worth adding with the models above are the refinement of `Debounce` for three
lines, and the two gate lengths side by side: that `NoEdgeLost` holds exactly when
the gate is a whole number of samples. Liveness stays with TLC.

## 8 How to run

```
tlc -config MCCommutation.cfg MCCommutation     # and so on, see PROJECT.json "runs"
tlapm DrivePartsProofs.tla
```
