-------------------------------- MODULE Ne2k --------------------------------
(***************************************************************************)
(* The network card of ne2k.ts and the driver of the guest.  Frames come   *)
(* from the network between any two accesses of the guest and are written  *)
(* to a ring of pages; the guest copies them out through the data port,    *)
(* one access at a time, and then moves the boundary.                      *)
(*                                                                         *)
(* Memory is counted in cells: a page has PageSize cells, and the header   *)
(* of a frame takes the first.  The padding of short frames, the addresses *)
(* (a frame is for this card or not), the register pages and the access    *)
(* width are left out.  The driver is the usual one: its boundary is one   *)
(* page behind the frame it reads next, and one transfer is under way at a *)
(* time.                                                                   *)
(***************************************************************************)
EXTENDS Integers, Sequences, FiniteSets

CONSTANTS PStart, PStop,   \* the ring: pages PStart .. PStop - 1; page 0 is the driver's own
          PageSize,        \* the cells of a page (256 bytes)
          Lengths,         \* the cells of a frame, without its header
          MaxFrames        \* bounds the frames that are accepted

ASSUME RingAssumption ==
    /\ PStart \in Nat \ {0} /\ PStop \in Nat /\ PStart + 1 < PStop
    /\ PageSize \in Nat \ {0, 1}
    /\ Lengths \subseteq Nat \ {0}

Bits == {"RX", "TX", "RDC", "RESET"}
Pages == PStart .. PStop - 1

VARIABLES memory, curpg, boundary,
          ne2k_isr, imr,      \* isr and imr
          irq_line,           \* the interrupt line of the card
          stop, rx,            \* bit 0 of cr; a filter of rxcr admits the frames
          rsar, rcnt,          \* the remote DMA registers
          pc, seen, page,      \* external: the driver, the isr it read, its next frame
          count,               \* external: what is left to copy, from the header
          accepted,            \* history: the frames accepted, each with its first page
          delivered, garbled,  \* history: how many were copied; one was not what came in
          full                 \* history: curpg has caught up with boundary

ring == <<memory, curpg, boundary>>
irq == <<ne2k_isr, imr, irq_line>>
control == <<stop, rx>>
remote == <<rsar, rcnt>>
driver == <<pc, seen, page, count>>
history == <<accepted, delivered, garbled, full>>
ne2k_vars == <<ring, irq, control, remote, driver, history>>

\* What a cell holds: nothing known, the header of a frame, or a cell of its data.
Unknown == <<"unknown", 0, 0>>
Header(next, len) == <<"header", next, len>>
Data(f, k) == <<"data", f, k>>

Cells == 0 .. PStop * PageSize - 1

Ne2kTypeOK ==
    /\ DOMAIN memory = Cells
    /\ curpg \in Pages /\ boundary \in Pages /\ page \in Pages
    /\ ne2k_isr \subseteq Bits /\ imr \subseteq Bits /\ seen \subseteq Bits
    /\ irq_line \in BOOLEAN /\ stop \in BOOLEAN /\ rx \in BOOLEAN
    /\ rsar \in Cells /\ rcnt \in Nat /\ count \in Nat
    /\ pc \in {"idle", "seen", "drain", "header", "parsed", "body", "send"}
    /\ accepted \in Seq([page : Pages, len : Lengths])
    /\ delivered \in 0 .. Len(accepted)
    /\ garbled \in BOOLEAN /\ full \in BOOLEAN

Ne2kInit ==
    /\ memory = [c \in Cells |-> Unknown]
    /\ curpg = PStart /\ boundary = PStart
    /\ ne2k_isr = {} /\ imr = {} /\ irq_line = FALSE
    /\ stop = TRUE /\ rx = FALSE
    /\ rsar = 0 /\ rcnt = 0
    /\ pc = "idle" /\ seen = {} /\ page = PStart /\ count = 0
    /\ accepted = <<>> /\ delivered = 0 /\ garbled = FALSE /\ full = FALSE

-----------------------------------------------------------------------------
(* Interrupts.                                                             *)

\* update_irq, after isr and imr have been changed.
UpdateIrq == irq_line' = (ne2k_isr' \cap imr' # {})

DoInterrupt(bits) ==
    /\ ne2k_isr' = ne2k_isr \cup bits /\ imr' = imr
    /\ UpdateIrq

-----------------------------------------------------------------------------
(* Receiving.                                                              *)

RingSize == PStop - PStart

Needed(len) == 1 + (len + 1) \div PageSize

\* "boundary == curpg interpreted as ringbuffer empty"
Available == IF boundary > curpg THEN boundary - curpg
             ELSE PStop - curpg + boundary - PStart

HasRoom(len) == Available >= Needed(len) \/ boundary = 0

PageAfter(p, n) == IF p + n >= PStop THEN p + n - RingSize ELSE p + n

\* The k-th cell of a frame that starts on page p, its header being the 0th.
CellOf(p, k) ==
    LET c == p * PageSize + k
    IN IF c >= PStop * PageSize THEN c - RingSize * PageSize ELSE c

\* The memory with frame f of this length written from page p on.
Written(f, p, len) ==
    [c \in Cells |->
        IF c = CellOf(p, 0) THEN Header(PageAfter(p, Needed(len)), len)
        ELSE IF \E k \in 1 .. len : c = CellOf(p, k)
             THEN Data(f, CHOOSE k \in 1 .. len : c = CellOf(p, k))
             ELSE memory[c]]

Receive(len) ==
    /\ Len(accepted) < MaxFrames
    /\ ~ stop /\ rx
    /\ HasRoom(len)
    /\ memory' = Written(Len(accepted) + 1, curpg, len)
    /\ curpg' = PageAfter(curpg, Needed(len))
    /\ DoInterrupt({"RX"})
    /\ accepted' = Append(accepted, [page |-> curpg, len |-> len])
    /\ full' = (full \/ curpg' = boundary)
    /\ UNCHANGED <<boundary, control, remote, driver, delivered, garbled>>

-----------------------------------------------------------------------------
(* Registers.                                                              *)

\* A write of the command register: with the stop bit nothing else happens.
Command(stopBit, dma, transmit) ==
    /\ stop' = stopBit
    /\ IF stopBit THEN UNCHANGED irq
       ELSE DoInterrupt((IF dma /\ rcnt' = 0 THEN {"RDC"} ELSE {})
                        \cup (IF transmit THEN {"TX"} ELSE {}))

\* A mutant of AckIsr: everything that is pending is acknowledged.
AckIsrAll(bits) ==
    /\ ne2k_isr' = {} /\ imr' = imr
    /\ UpdateIrq

\* ISR: "acknowledge interrupts where bit is set"
AckIsr(bits) ==
    /\ ne2k_isr' = ne2k_isr \ bits /\ imr' = imr
    /\ UpdateIrq

WriteImr(bits) ==
    /\ imr' = bits /\ ne2k_isr' = ne2k_isr
    /\ UpdateIrq

\* A mutant of NextRsar: the address runs past the end of the ring to the first page.
NextRsarToZero == IF rsar + 1 >= PStop * PageSize THEN 0 ELSE rsar + 1

NextRsar == IF rsar + 1 >= PStop * PageSize THEN rsar + 1 - RingSize * PageSize ELSE rsar + 1

\* One access to the data port.
DataPort ==
    /\ rsar' = NextRsar
    /\ rcnt' = rcnt - 1
    /\ IF rcnt = 1 THEN DoInterrupt({"RDC"}) ELSE UNCHANGED irq

-----------------------------------------------------------------------------
(* The driver.  When a frame is not what came in it sets the card up again. *)

At(label) == pc = label /\ ~ garbled

\* The card is stopped and set up again; what is in the ring is given up.
Setup ==
    /\ pc = "idle" \/ garbled
    /\ stop' = TRUE
    /\ curpg' = PStart /\ boundary' = PStop - 1 /\ page' = PStart
    /\ ne2k_isr' = {} /\ imr' \in {{}, {"RX"}, {"RX", "TX", "RDC"}} /\ UpdateIrq
    /\ rx' \in BOOLEAN
    /\ pc' = "idle" /\ seen' = {} /\ count' = 0
    /\ delivered' = Len(accepted) /\ full' = FALSE /\ garbled' = FALSE
    /\ UNCHANGED <<memory, remote, accepted>>

StartStop ==
    /\ At("idle")
    /\ \E stopBit \in BOOLEAN : Command(stopBit, FALSE, FALSE)
    /\ UNCHANGED <<ring, remote, rx, driver, history>>

Reset ==
    /\ At("idle")
    /\ DoInterrupt({"RESET"})
    /\ UNCHANGED <<ring, control, remote, driver, history>>

Mask ==
    /\ At("idle")
    /\ WriteImr({})
    /\ UNCHANGED <<ring, control, remote, driver, history>>

\* A mask is put back, or the driver is called by an interrupt: it reads isr ...
Unmask ==
    /\ At("idle")
    /\ \E bits \in {{"RX"}, {"RX", "TX", "RDC"}} : WriteImr(bits)
    /\ UNCHANGED <<ring, control, remote, driver, history>>

Interrupt ==
    /\ At("idle") /\ irq_line
    /\ seen' = ne2k_isr /\ pc' = "seen"
    /\ UNCHANGED <<ring, irq, control, remote, page, count, history>>

\* ... and acknowledges what it has seen before it looks at the ring.
Acknowledge ==
    /\ At("seen")
    /\ AckIsr(seen)
    /\ pc' = IF "RX" \in seen THEN "drain" ELSE "idle"
    /\ seen' = {}
    /\ UNCHANGED <<ring, control, remote, page, count, history>>

ReadCurpg ==
    /\ At("drain")
    /\ IF page = curpg
       THEN pc' = "idle" /\ UNCHANGED <<ring, irq, control, remote, seen, page, count, history>>
       ELSE /\ rsar' = page * PageSize /\ rcnt' = 1
            /\ Command(stop, TRUE, FALSE)
            /\ pc' = "header"
            /\ UNCHANGED <<ring, rx, seen, page, count, history>>

ReadHeader ==
    /\ At("header")
    /\ DataPort
    /\ IF memory[rsar][1] = "header"
       THEN count' = memory[rsar][3] /\ pc' = "parsed" /\ UNCHANGED garbled
       ELSE garbled' = TRUE /\ UNCHANGED <<count, pc>>
    /\ UNCHANGED <<ring, control, seen, page, accepted, delivered, full>>

SetupBody ==
    /\ At("parsed")
    /\ rsar' = page * PageSize + 1 /\ rcnt' = count
    /\ Command(stop, TRUE, FALSE)
    /\ pc' = "body"
    /\ UNCHANGED <<ring, rx, seen, page, count, history>>

ReadBody ==
    /\ At("body") /\ rcnt > 0
    /\ DataPort
    /\ garbled' = (memory[rsar] # Data(delivered + 1, count - rcnt + 1))
    /\ UNCHANGED <<ring, control, driver, accepted, delivered, full>>

\* The frame is handed on; its pages are free.
MoveBoundary ==
    /\ At("body") /\ rcnt = 0
    /\ page' = memory[page * PageSize][2]
    /\ boundary' = IF page' = PStart THEN PStop - 1 ELSE page' - 1
    /\ delivered' = delivered + 1
    /\ garbled' = (delivered' > Len(accepted) \/ accepted[delivered'].len # count)
    /\ pc' = "drain" /\ count' = 0
    /\ UNCHANGED <<memory, curpg, irq, control, remote, seen, accepted, full>>

\* A frame is written to the driver's own page and sent.
SetupSend ==
    /\ At("idle") /\ ~ stop
    /\ rsar' = 0 /\ rcnt' = 1
    /\ Command(FALSE, TRUE, FALSE)
    /\ pc' = "send"
    /\ UNCHANGED <<ring, rx, seen, page, count, history>>

WriteBody ==
    /\ At("send") /\ rcnt > 0
    /\ DataPort
    /\ memory' = [memory EXCEPT ![rsar] = Unknown]
    /\ UNCHANGED <<curpg, boundary, control, driver, history>>

Send ==
    /\ At("send") /\ rcnt = 0
    /\ UNCHANGED remote
    /\ Command(FALSE, FALSE, TRUE)
    /\ pc' = "idle"
    /\ UNCHANGED <<ring, rx, seen, page, count, history>>

Driver ==
    \/ Setup \/ StartStop \/ Reset \/ Mask \/ Unmask
    \/ Interrupt \/ Acknowledge
    \/ ReadCurpg \/ ReadHeader \/ SetupBody \/ ReadBody \/ MoveBoundary
    \/ SetupSend \/ WriteBody \/ Send

Ne2kNext == Driver \/ \E len \in Lengths : Receive(len)

Ne2kSpec == Ne2kInit /\ [][Ne2kNext]_ne2k_vars

-----------------------------------------------------------------------------
(* Properties.                                                             *)

Unread == delivered + 1 .. Len(accepted)

\* Frame f is in the ring as it came in.
InRing(f) ==
    LET frame == accepted[f]
    IN /\ memory[CellOf(frame.page, 0)] = Header(PageAfter(frame.page, Needed(frame.len)), frame.len)
       /\ \A k \in 1 .. frame.len : memory[CellOf(frame.page, k)] = Data(f, k)

\* "Buffer full, dropping packet": a frame is dropped rather than written over one
\* that has not been read.
UnreadKept == \A f \in Unread : InRing(f)

\* Unread frames are lost only after the ring has once been filled to the last page,
\* when curpg = boundary is taken for an empty ring.
KeptUnlessFull == full \/ UnreadKept

\* What the guest copies through the data port are the frames that were accepted,
\* whole and in order, across the end of the ring too.
InOrder == full \/ ~ garbled

\* Both, which fail in different ways: the card overwrites a frame, or the driver
\* copies something else than it.
RingDelivers == KeptUnlessFull /\ InOrder

\* A frame that arrives at any moment is announced: if the driver is not about to
\* look at the ring, its interrupt is pending, and at the line unless masked.
FrameAnnounced ==
    /\ Unread # {} /\ ~ garbled /\ ~ full
    /\ pc \in {"idle", "send"} \/ (pc = "seen" /\ "RX" \notin seen)
    => "RX" \in ne2k_isr /\ ("RX" \in imr => irq_line)

=============================================================================
