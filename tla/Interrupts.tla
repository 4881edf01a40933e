----------------------------- MODULE Interrupts -----------------------------
(***************************************************************************)
(* The interrupt layer of the library for the internal controller of the   *)
(* processor: the dispatcher (alt_irq_handler.c with the test before it in *)
(* alt_irq_entry.S), the registration of handlers (alt_irq_register.c,     *)
(* alt_iic_isr_register.c), the enabling and disabling of one interrupt    *)
(* and of all (priv/alt_legacy_irq.h, sys/alt_irq.h, alt_iic.c), and       *)
(* handlers that let higher priorities interrupt them.                     *)
(*                                                                         *)
(* The program runs one call at a time, memory access by memory access;    *)
(* interrupts are taken between any two.  A handler acknowledges its       *)
(* device with a write that reaches it later, as the handler of the JTAG   *)
(* UART does, and reads the device back before it returns.                 *)
(***************************************************************************)
EXTENDS Integers, Sequences, SequencesExt, FiniteSetsExt

CONSTANTS
  IRQs,        \* the interrupt numbers; a lower number has priority
  Handlers,    \* the handlers; each belongs to the context of its own number
  NULL,        \* no handler
  MaxNested    \* bound: the calls of alt_irq_disable_all that nest in the program

ASSUME InterruptAssumption ==
  /\ IRQs \subseteq Nat /\ NULL \notin Handlers /\ MaxNested \in Nat

VARIABLES
  pie,                \* status.PIE: does the processor take interrupts?
  ienable,            \* the enabled ones, in the processor
  alt_irq_active,     \* the enabled ones, in memory
  alt_priority_mask,  \* those a handler lets through
  alt_irq,            \* the table: [handler, context] of each
  line,               \* the devices that ask for an interrupt
  posted,             \* the acknowledgements on their way to their devices
  frames,             \* the interrupt routines that run, the innermost last
  saves,              \* the contexts the program's alt_irq_disable_all returned
  op,                 \* the program's call
  wanted              \* history: those enabled last rather than disabled

vars == <<pie, ienable, alt_irq_active, alt_priority_mask, alt_irq, line, posted,
          frames, saves, op, wanted>>
Processor == <<pie, ienable, alt_irq_active, alt_priority_mask, alt_irq>>
Devices   == <<line, posted>>

Idle == [at |-> "idle", id |-> 0, handler |-> NULL, reg |-> {}]

Init ==
  /\ pie = TRUE /\ ienable = {} /\ alt_irq_active = {} /\ alt_priority_mask = IRQs
  /\ alt_irq = [i \in IRQs |-> [handler |-> NULL, context |-> NULL]]
  /\ line = {} /\ posted = {}
  /\ frames = <<>> /\ saves = <<>> /\ op = Idle /\ wanted = {}

-----------------------------------------------------------------------------
alt_irq_pending == line \cap ienable

(* An enabled interrupt is taken before the next instruction.              *)
Taken    == pie /\ alt_irq_pending # {}
Program  == frames = <<>> /\ ~Taken
Top      == Last(frames)
Runs(at) == frames # <<>> /\ ~Taken /\ Top.at = at
Goes(f)  == frames' = Append(Front(frames), f)

(* The values alt_irq_disable_all and alt_irq_enable_all give status.PIE.  *)
InhibitedNot(status) == status          \* a mutant: interrupts stay enabled

Inhibited(status) == FALSE

Restored(context) == context

alt_irq_disable_all == saves' = Append(saves, pie) /\ pie' = Inhibited(pie)
alt_irq_enable_all  == saves' = Front(saves) /\ pie' = Restored(Last(saves))

-----------------------------------------------------------------------------
(* The devices: one may ask at any time after its last interrupt was       *)
(* acknowledged, and an acknowledgement arrives some time after its write. *)
DeviceAsks(i) ==
  /\ i \notin line /\ line' = line \cup {i}
  /\ UNCHANGED <<Processor, posted, frames, saves, op, wanted>>

AckArrives(i) ==
  /\ i \in posted /\ posted' = posted \ {i} /\ line' = line \ {i}
  /\ UNCHANGED <<Processor, frames, saves, op, wanted>>

-----------------------------------------------------------------------------
(* The program's calls.  It may keep interrupts disabled over several.     *)
DisableAll ==
  /\ Program /\ op = Idle /\ Len(saves) < MaxNested
  /\ alt_irq_disable_all
  /\ UNCHANGED <<ienable, alt_irq_active, alt_priority_mask, alt_irq, Devices, frames, op, wanted>>

EnableAll ==
  /\ Program /\ op = Idle /\ saves # <<>>
  /\ alt_irq_enable_all
  /\ UNCHANGED <<ienable, alt_irq_active, alt_priority_mask, alt_irq, Devices, frames, op, wanted>>

(* alt_irq_register and alt_iic_isr_register: handler, context, then the   *)
(* interrupt itself, all with interrupts disabled.                         *)
alt_irq_register(i, h) ==
  /\ Program /\ op = Idle
  /\ alt_irq_disable_all
  /\ op' = [at |-> "handler", id |-> i, handler |-> h, reg |-> {}]
  /\ UNCHANGED <<ienable, alt_irq_active, alt_priority_mask, alt_irq, Devices, frames, wanted>>

WriteHandler ==
  /\ Program /\ op.at = "handler"
  /\ alt_irq' = [alt_irq EXCEPT ![op.id].handler = op.handler]
  /\ op' = [op EXCEPT !.at = "context"]
  /\ UNCHANGED <<pie, ienable, alt_irq_active, alt_priority_mask, Devices, frames, saves, wanted>>

WriteContext ==
  /\ Program /\ op.at = "context"
  /\ alt_irq' = [alt_irq EXCEPT ![op.id].context = op.handler]
  /\ alt_irq_disable_all
  /\ op' = [op EXCEPT !.at = "active", !.reg = alt_irq_active]
  /\ UNCHANGED <<ienable, alt_irq_active, alt_priority_mask, Devices, frames, wanted>>

(* alt_irq_enable and alt_irq_disable, from the program: a handler is      *)
(* registered before its interrupt is enabled.                             *)
alt_irq_enable_or_disable(i, enable) ==
  /\ Program /\ op = Idle /\ (enable => alt_irq[i].handler # NULL)
  /\ alt_irq_disable_all
  /\ op' = [at |-> IF enable THEN "enable" ELSE "disable", id |-> i, handler |-> NULL,
            reg |-> alt_irq_active]
  /\ UNCHANGED <<ienable, alt_irq_active, alt_priority_mask, alt_irq, Devices, frames, wanted>>

Enables == op.at = "enable" \/ (op.at = "active" /\ op.handler # NULL)
With(set, i, enable) == IF enable THEN set \cup {i} ELSE set \ {i}

WriteActive ==
  /\ Program /\ op.at \in {"active", "enable", "disable"}
  /\ alt_irq_active' = With(op.reg, op.id, Enables)
  /\ wanted' = With(wanted, op.id, Enables)
  /\ op' = [op EXCEPT !.at = IF op.at = "active" THEN "ienable" ELSE "ienable alone"]
  /\ UNCHANGED <<pie, ienable, alt_priority_mask, alt_irq, Devices, frames, saves>>

WriteIenable ==
  /\ Program /\ op.at \in {"ienable", "ienable alone"}
  /\ ienable' = alt_irq_active
  /\ alt_irq_enable_all
  /\ op' = IF op.at = "ienable" THEN [op EXCEPT !.at = "leave"] ELSE Idle
  /\ UNCHANGED <<alt_irq_active, alt_priority_mask, alt_irq, Devices, frames, wanted>>

RegisterReturns ==
  /\ Program /\ op.at = "leave"
  /\ alt_irq_enable_all
  /\ op' = Idle
  /\ UNCHANGED <<ienable, alt_irq_active, alt_priority_mask, alt_irq, Devices, frames, wanted>>

-----------------------------------------------------------------------------
(* An interrupt: the processor disables interrupts and the entry code      *)
(* tests that it was one.                                                  *)
InterruptTaken ==
  /\ Taken
  /\ pie' = FALSE
  /\ frames' = Append(frames, [at |-> "entry", id |-> 0, active |-> {}, mask |-> {}, open |-> FALSE])
  /\ UNCHANGED <<ienable, alt_irq_active, alt_priority_mask, alt_irq, Devices, saves, op, wanted>>

(* With none pending the entry code goes on to the traps: NotIrq.          *)
EntryTests ==
  /\ Runs("entry")
  /\ Goes([Top EXCEPT !.at = IF alt_irq_pending = {} THEN "not irq" ELSE "pending"])
  /\ UNCHANGED <<Processor, Devices, saves, op, wanted>>

(* alt_irq_handler reads the pending ones.  The loop tests them after a    *)
(* handler has run but not before the first.                               *)
ReadPending ==
  /\ Runs("pending")
  /\ Goes([Top EXCEPT !.at = "dispatch", !.active = alt_irq_pending])
  /\ UNCHANGED <<Processor, Devices, saves, op, wanted>>

FirstOfLast(active) == Max(active)      \* a mutant: the search starts at the other end

FirstOf(active) == Min(active)

Dispatch ==
  /\ Runs("dispatch") /\ Top.active # {}
  /\ Goes([Top EXCEPT !.at = "handler", !.id = FirstOf(Top.active), !.open = FALSE])
  /\ UNCHANGED <<Processor, Devices, saves, op, wanted>>

(* A handler may let higher priorities in: the mask, the enables, the      *)
(* processor; and back in the opposite order.                              *)
BelowOrSame(i) == {j \in IRQs : j <= i}    \* a mutant: the mask lets i in too

Below(i) == {j \in IRQs : j < i}

alt_irq_interruptible ==
  /\ Runs("handler") /\ ~Top.open
  /\ alt_priority_mask' = Below(Top.id)
  /\ ienable' = alt_irq_active \cap Below(Top.id)
  /\ pie' = TRUE
  /\ Goes([Top EXCEPT !.open = TRUE, !.mask = alt_priority_mask])
  /\ UNCHANGED <<alt_irq_active, alt_irq, Devices, saves, op, wanted>>

(* A handler may enable or disable an interrupt while no mask is set.      *)
HandlerSets(i, enable) ==
  /\ Runs("handler") /\ alt_priority_mask = IRQs /\ (enable => alt_irq[i].handler # NULL)
  /\ alt_irq_active' = With(alt_irq_active, i, enable)
  /\ ienable' = alt_irq_active'
  /\ wanted' = With(wanted, i, enable)
  /\ UNCHANGED <<pie, alt_priority_mask, alt_irq, Devices, frames, saves, op>>

(* The write that ends the interrupt's cause, and the read of the device   *)
(* that waits for it.                                                      *)
Acknowledge ==
  /\ Runs("handler")
  /\ posted' = IF Top.id \in line THEN posted \cup {Top.id} ELSE posted
  /\ Goes([Top EXCEPT !.at = "acknowledged"])
  /\ UNCHANGED <<Processor, line, saves, op, wanted>>

ReadBackNot(i) == TRUE                  \* a mutant: no dummy read

ReadBack(i) == i \notin posted

alt_irq_non_interruptible ==
  /\ Runs("acknowledged") /\ Top.open /\ ReadBack(Top.id)
  /\ pie' = FALSE
  /\ alt_priority_mask' = Top.mask
  /\ ienable' = Top.mask \cap alt_irq_active
  /\ Goes([Top EXCEPT !.open = FALSE])
  /\ UNCHANGED <<alt_irq_active, alt_irq, Devices, saves, op, wanted>>

HandlerReturns ==
  /\ Runs("acknowledged") /\ ~Top.open /\ ReadBack(Top.id)
  /\ Goes([Top EXCEPT !.at = IF alt_irq_pending = {} THEN "exit" ELSE "dispatch",
                      !.active = alt_irq_pending])
  /\ UNCHANGED <<Processor, Devices, saves, op, wanted>>

InterruptReturns ==
  /\ Runs("exit")
  /\ frames' = Front(frames)
  /\ pie' = TRUE
  /\ UNCHANGED <<ienable, alt_irq_active, alt_priority_mask, alt_irq, Devices, saves, op, wanted>>

-----------------------------------------------------------------------------
Routine ==
  \/ InterruptTaken \/ EntryTests \/ ReadPending \/ Dispatch \/ Acknowledge
  \/ alt_irq_non_interruptible \/ HandlerReturns \/ InterruptReturns

Call == WriteHandler \/ WriteContext \/ WriteActive \/ WriteIenable \/ RegisterReturns

Next ==
  \/ \E i \in IRQs : DeviceAsks(i) \/ AckArrives(i)
  \/ Routine \/ Call \/ DisableAll \/ EnableAll \/ alt_irq_interruptible
  \/ \E i \in IRQs :
       \/ \E h \in Handlers \cup {NULL} : alt_irq_register(i, h)
       \/ \E enable \in BOOLEAN : alt_irq_enable_or_disable(i, enable) \/ HandlerSets(i, enable)

Spec == Init /\ [][Next]_vars

(* The processor goes on, a write arrives, and the program does not keep   *)
(* interrupts disabled for ever.                                           *)
FairSpec ==
  /\ Spec /\ WF_vars(Routine) /\ WF_vars(Call)
  /\ \A n \in 1 .. MaxNested : SF_vars(Len(saves) = n /\ EnableAll)
  /\ \A i \in IRQs : WF_vars(AckArrives(i))

-----------------------------------------------------------------------------
(* An interrupt routine is interrupted by higher priorities only           *)
(* (priv/alt_legacy_irq.h:101-104).                                        *)
NestsUpwards ==
  \A m, n \in DOMAIN frames :
    (m < n /\ frames[n].at \in {"handler", "acknowledged"}) => frames[n].id < frames[m].id

(* Enabling and disabling from the program and from handlers adds up: none *)
(* is lost between the read and the write of alt_irq_active, and when no   *)
(* handler runs the processor has what was asked for.                      *)
NoUpdateLost ==
  /\ alt_irq_active = wanted
  /\ (frames = <<>> /\ op = Idle) => ienable = wanted

(* Neither the entry code nor the dispatcher finds nothing pending: the    *)
(* first would take the interrupt for a trap, the second would search for  *)
(* a bit for ever (alt_irq_handler.c:140-155).  And whatever it finds has  *)
(* a handler in the table together with the context it was registered      *)
(* with, never half of another registration (alt_irq_register.c:83-87).    *)
DispatchesWhole ==
  \A n \in DOMAIN frames :
    /\ frames[n].at # "not irq"
    /\ frames[n].at = "dispatch" =>
         /\ frames[n].active # {}
         /\ \A i \in frames[n].active :
              alt_irq[i].handler # NULL /\ alt_irq[i].context = alt_irq[i].handler

(* The most urgent interrupt is served again and again while it is enabled, *)
(* however often the others ask.                                           *)
UrgentServed ==
  LET urgent == Min(IRQs)
  IN  <>[](urgent \in wanted) => []<>(urgent \notin line)

=============================================================================
