----------------------------- MODULE Interrupts -----------------------------
(***************************************************************************)
(* The interrupt controllers of apic.ts and ioapic.ts: devices drive the   *)
(* pins of the I/O APIC, which sends vectors to the local APIC, which      *)
(* hands them to the processor.  A level triggered pin is sent once and    *)
(* then held back by its remote IRR bit until the guest's end of interrupt *)
(* (EOI) comes back from the local APIC: if that message were missed, the  *)
(* device would stay silent for ever.                                      *)
(*                                                                         *)
(* The processor is not in the sources.  It takes an interrupt when        *)
(* handle_irqs is called with interrupts enabled, or when the guest        *)
(* enables them, and before it executes anything else.  The guest ends an  *)
(* interrupt with interrupts disabled; it changes the vector or the        *)
(* trigger mode of a pin only while the device is quiet, and uses a vector *)
(* for one trigger mode only.                                              *)
(***************************************************************************)
EXTENDS Integers, Sequences, FiniteSets

CONSTANTS Pins,          \* inputs of the I/O APIC in use (IOAPIC_IRQ_COUNT is 24)
          LevelVectors,  \* vectors the guest gives to level triggered pins
          EdgeVectors,   \* vectors of edge triggered pins, of the timer and of IPIs
          Priorities,    \* values the guest writes into tpr
          MaxDepth       \* bounds the handlers that interrupt each other

Vectors == LevelVectors \cup EdgeVectors

ASSUME PinAssumption == Pins \subseteq Nat
ASSUME VectorAssumption == /\ Vectors \subseteq 16 .. 254
                           /\ LevelVectors \cap EdgeVectors = {}
ASSUME PriorityAssumption == Priorities \subseteq 0 .. 255 /\ 0 \in Priorities

VARIABLES line,       \* irq_value: what each device drives
          pending,    \* irr of the I/O APIC
          config,     \* ioredtbl_config
          irr, isr, tmr, tpr,  \* of the local APIC
          interrupts, \* external: the interrupt flag of the processor
          handlers,   \* external: the vectors whose handlers have not sent their EOI
          looking     \* external: the processor is about to ask for a vector

ioapic == <<line, pending, config>>
apic == <<irr, isr, tmr, tpr>>
vars == <<ioapic, apic, interrupts, handlers, looking>>

NoVector == 0

Entries == [vector : Vectors \cup {NoVector}, level : BOOLEAN, masked : BOOLEAN,
            remote : BOOLEAN]

TypeOK ==
    /\ line \in [Pins -> BOOLEAN] /\ pending \in [Pins -> BOOLEAN]
    /\ config \in [Pins -> Entries]
    /\ irr \in SUBSET Vectors /\ isr \in SUBSET Vectors /\ tmr \in SUBSET Vectors
    /\ tpr \in Priorities
    /\ interrupts \in BOOLEAN /\ looking \in BOOLEAN
    /\ handlers \in Seq(Vectors)

Init ==
    /\ line = [i \in Pins |-> FALSE] /\ pending = [i \in Pins |-> FALSE]
    /\ config = [i \in Pins |-> [vector |-> NoVector, level |-> FALSE,
                                 masked |-> TRUE, remote |-> FALSE]]
    /\ irr = {} /\ isr = {} /\ tmr = {} /\ tpr = 0
    /\ interrupts = FALSE /\ handlers = <<>> /\ looking = FALSE

-----------------------------------------------------------------------------
(* The local APIC.                                                         *)

Highest(S, v) == v \in S /\ \A w \in S : w <= v

Class(v) == v \div 16

\* A mutant of MayInterrupt: a handler is interrupted by its own vector.
MayInterruptItself(v, is, p) == (\A w \in is : w <= v) /\ Class(v) > Class(p)

\* Vector v comes before everything in service and before the task priority.
MayInterrupt(v, is, p) == (\A w \in is : w < v) /\ Class(v) > Class(p)

Deliverable(ir, is, p) == \E v \in ir : Highest(ir, v) /\ MayInterrupt(v, is, p)

\* A mutant of CheckVector: the processor is left to find out by itself.
CheckVectorLater(ir, is, p) == looking' = looking

\* check_vector: handle_irqs does nothing while interrupts are disabled.
CheckVector(ir, is, p) == looking' = (interrupts /\ Deliverable(ir, is, p))

\* A mutant of ModeAfter: the trigger mode of the first delivery is kept.
ModeAfterNoChange(v, is_level) == tmr

ModeAfter(v, is_level) == IF is_level THEN tmr \cup {v} ELSE tmr \ {v}

\* deliver; route ignores the destination.
Deliver(v, is_level) ==
    /\ IF v \in irr THEN UNCHANGED <<irr, tmr, looking>>
       ELSE /\ irr' = irr \cup {v}
            /\ tmr' = ModeAfter(v, is_level)
            /\ CheckVector(irr', isr, tpr)
    /\ UNCHANGED <<isr, tpr>>

NoDelivery == UNCHANGED <<apic, looking>>

-----------------------------------------------------------------------------
(* The I/O APIC.                                                           *)

Entry(i, c, p) == /\ config' = [config EXCEPT ![i] = c]
                  /\ pending' = [pending EXCEPT ![i] = p]

\* check_irq for pin i, with the entry and the irr bit the caller has given it.
CheckIrq(i, c, p) ==
    \/ /\ ~ p \/ c.masked
       /\ Entry(i, c, p) /\ NoDelivery
    \/ /\ p /\ ~ c.masked /\ ~ c.level
       /\ Entry(i, c, FALSE) /\ Deliver(c.vector, FALSE)
    \/ /\ p /\ ~ c.masked /\ c.level
       /\ Entry(i, [c EXCEPT !.remote = TRUE], TRUE)
       /\ IF c.remote THEN NoDelivery ELSE Deliver(c.vector, TRUE)

\* set_irq: an edge on a masked pin is lost.
SetIrq(i) ==
    /\ ~ looking
    /\ ~ line[i]
    /\ line' = [line EXCEPT ![i] = TRUE]
    /\ IF config[i].masked /\ ~ config[i].level
       THEN UNCHANGED <<pending, config>> /\ NoDelivery
       ELSE CheckIrq(i, config[i], TRUE)
    /\ UNCHANGED <<interrupts, handlers>>

\* clear_irq: what has reached the local APIC stays there.
ClearIrq(i) ==
    /\ ~ looking
    /\ line[i]
    /\ line' = [line EXCEPT ![i] = FALSE]
    /\ pending' = [pending EXCEPT ![i] = @ /\ ~ config[i].level]
    /\ UNCHANGED <<config, apic, interrupts, handlers, looking>>

\* The guest gives a quiet pin its vector and trigger mode ...
Configure(i, v, is_level, mask) ==
    /\ ~ looking
    /\ ~ line[i] /\ ~ config[i].remote
    /\ v \in IF is_level THEN LevelVectors ELSE EdgeVectors
    /\ CheckIrq(i, [vector |-> v, level |-> is_level, masked |-> mask, remote |-> FALSE], pending[i])
    /\ UNCHANGED <<line, interrupts, handlers>>

\* ... and masks and unmasks it whenever it likes.
SetMask(i, mask) ==
    /\ ~ looking
    /\ config[i].vector # NoVector /\ config[i].masked # mask
    /\ CheckIrq(i, [config[i] EXCEPT !.masked = mask], pending[i])
    /\ UNCHANGED <<line, interrupts, handlers>>

\* The pins remote_eoi of vector v releases, and those it sends again.
Held(v) == {i \in Pins : config[i].vector = v /\ config[i].remote}
Again(v) == {i \in Held(v) : pending[i] /\ ~ config[i].masked}

\* A mutant of RemoteEoi: the lines that are still asserted are not sent again.
RemoteEoiOnly(v) ==
    /\ config' = [i \in Pins |-> [config[i] EXCEPT !.remote = @ /\ i \notin Held(v)]]
    /\ UNCHANGED <<pending, irr, tmr>>

\* remote_eoi: check_irq of every held pin, in their order.
RemoteEoi(v) ==
    LET again == Again(v)
    IN /\ config' = [i \in Pins |->
              [config[i] EXCEPT !.remote = IF i \in Held(v) THEN i \in again /\ config[i].level ELSE @]]
       /\ pending' = [i \in Pins |-> pending[i] /\ (i \in again => config[i].level)]
       /\ \/ again = {} /\ UNCHANGED <<irr, tmr>>
          \/ \E i \in again :
                /\ \A j \in again : i <= j
                /\ irr' = irr \cup {v}
                /\ tmr' = IF v \in irr THEN tmr ELSE ModeAfter(v, config[i].level)

-----------------------------------------------------------------------------
(* The processor and the guest.                                            *)

\* acknowledge_irq, called by the processor: the highest vector, or none.  The
\* check_vector at its end finds nothing above the vector it has just taken.
Take(v) ==
    /\ Highest(irr, v) /\ MayInterrupt(v, isr, tpr)
    /\ irr' = irr \ {v} /\ isr' = isr \cup {v}
    /\ interrupts' = FALSE
    /\ handlers' = Append(handlers, v)
    /\ UNCHANGED <<tmr, tpr>>

AcknowledgeIrq ==
    /\ looking
    /\ looking' = FALSE
    /\ \/ \E v \in irr : Take(v)
       \/ ~ Deliverable(irr, isr, tpr) /\ UNCHANGED <<apic, interrupts, handlers>>
    /\ UNCHANGED ioapic

Cli ==
    /\ ~ looking /\ interrupts
    /\ interrupts' = FALSE
    /\ UNCHANGED <<ioapic, apic, handlers, looking>>

\* sti, or the return from a handler.
Sti ==
    /\ ~ looking /\ ~ interrupts
    /\ Len(handlers) < MaxDepth
    /\ interrupts' = TRUE /\ looking' = TRUE
    /\ UNCHANGED <<ioapic, apic, handlers>>

\* The innermost handler ends its interrupt: isr loses its highest bit.
Eoi ==
    /\ ~ looking /\ ~ interrupts
    /\ handlers # <<>>
    /\ handlers' = SubSeq(handlers, 1, Len(handlers) - 1)
    /\ \E v \in isr :
          /\ Highest(isr, v)
          /\ isr' = isr \ {v}
          /\ IF v \in tmr THEN RemoteEoi(v) ELSE UNCHANGED <<config, pending, irr, tmr>>
    /\ CheckVector(irr', isr', tpr)
    /\ UNCHANGED <<line, tpr, interrupts>>

SetTpr(p) ==
    /\ ~ looking
    /\ tpr' = p
    /\ CheckVector(irr, isr, p)
    /\ UNCHANGED <<ioapic, irr, isr, tmr, interrupts, handlers>>

\* The guest sends itself an interrupt (icr0), or the timer of the APIC ends.
SelfInterrupt(v) ==
    /\ ~ looking
    /\ Deliver(v, FALSE)
    /\ UNCHANGED <<ioapic, interrupts, handlers>>

Next ==
    \/ AcknowledgeIrq \/ Cli \/ Sti \/ Eoi
    \/ \E p \in Priorities : SetTpr(p)
    \/ \E v \in EdgeVectors : SelfInterrupt(v)
    \/ \E i \in Pins :
          \/ SetIrq(i) \/ ClearIrq(i)
          \/ \E mask \in BOOLEAN : SetMask(i, mask)
          \/ \E v \in Vectors, is_level, mask \in BOOLEAN : Configure(i, v, is_level, mask)

Spec == Init /\ [][Next]_vars

-----------------------------------------------------------------------------
(* Properties.                                                             *)

\* A pin held back by its remote IRR bit is released in the end: its vector is
\* requested or in service, and marked for the EOI that remote_eoi waits for.
RemoteIrrReleased ==
    \A i \in Pins : config[i].remote =>
        config[i].level /\ config[i].vector \in (irr \cup isr) \cap tmr

\* A device that asserts a level triggered, unmasked pin is being heard, through
\* masking, EOIs in any order and vectors shared with other pins.
LevelNotLost ==
    \A i \in Pins : line[i] /\ config[i].level /\ ~ config[i].masked =>
        config[i].vector \in irr \cup isr

\* Nothing the processor could take waits while it runs with interrupts enabled.
NoLostInterrupt == interrupts /\ ~ looking => ~ Deliverable(irr, isr, tpr)

\* The vectors in service are those of the handlers, each above the one it has
\* interrupted, so that an EOI ends the interrupt of the handler that sends it.
HandlersMatch ==
    /\ isr = {handlers[k] : k \in 1 .. Len(handlers)}
    /\ \A k, l \in 1 .. Len(handlers) : k < l => handlers[k] < handlers[l]

=============================================================================
