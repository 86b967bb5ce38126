-------------------------------- MODULE Pci --------------------------------
(***************************************************************************)
(* The PCI bus, pci.ts, over the table of ports, io.ts: where the guest    *)
(* and a restored state put the I/O ranges of the cards, which handlers a  *)
(* port then reaches, and which interrupt line a card moves.               *)
(*                                                                         *)
(* A port holds an entry, an object with the handlers of one device; the   *)
(* constructor of the table makes one for every port, and a card keeps the *)
(* entries of the ports it registered at.  Moving a range puts these       *)
(* entries at other ports.  Ports are counted in blocks of the smallest    *)
(* range.  Each card has one I/O range; memory ranges, which cannot move,  *)
(* the ROM register and the read side of the configuration space are left  *)
(* out.                                                                    *)
(***************************************************************************)
EXTENDS Integers, Sequences, FiniteSetsExt

CONSTANTS Cards,        \* their numbers on the bus, pci_id >> 3
          RangeSize,    \* blocks of the range of each
          Original,     \* its first block, before anyone moved it
          NPorts,       \* blocks of ports
          FirstMovable, \* 1000h: the ports below never change
          Pool,         \* the first blocks that firmware and guests assign
          Pin,          \* interrupt pin of each card
          PciLines      \* the lines the guest routes pins to

Ports == 0 .. NPorts - 1
Blocks(c, first) == first .. first + RangeSize[c] - 1
Top(c) == NPorts - RangeSize[c]   \* what a size check leaves: ~(size - 1)

ASSUME PciAssumption ==
    /\ Cards \subseteq Nat /\ IsFiniteSet(Cards) /\ NPorts \in Nat
    /\ RangeSize \in [Cards -> Nat \ {0}] /\ Pin \in [Cards -> 1 .. 4]
    /\ Original \in [Cards -> Nat] /\ Pool \subseteq Nat
    /\ \A c \in Cards : Blocks(c, Original[c]) \subseteq Ports
    /\ \A c \in Cards, p \in Pool : Blocks(c, p) \subseteq Ports
    /\ \A c \in Cards : Top(c) \in Ports
    /\ PciLines # {} /\ FirstMovable \in Nat

Empty == -1                       \* an entry of create_empty_entry

VARIABLES ports,                  \* the entry of each port, named after its first port
          bar,                    \* the range in the configuration space of each card
          route,                  \* PIRQ A to D, isa_bridge_space8[60h ...]
          level,                  \* external: the interrupt lines
          asserted,               \* external: the cards that ask for service
          ranges_restored,        \* history: a state has been restored
          dropped                 \* history: cards whose line someone else has moved

bars == <<ports, bar, ranges_restored>>
lines == <<route, level, asserted, dropped>>
pci_vars == <<bars, lines>>

PciTypeOK ==
    /\ ports \in [Ports -> Ports \cup {Empty}]
    /\ bar \in [Cards -> Ports]
    /\ route \in [0 .. 3 -> PciLines] /\ level \in [PciLines -> BOOLEAN]
    /\ asserted \in SUBSET Cards /\ dropped \in SUBSET Cards /\ ranges_restored \in BOOLEAN

\* Whose handlers an entry has: register_read and register_write fill in the
\* entry that is at the port, so the last card to register has it.
Owner(entry) ==
    LET registered == {c \in Cards : entry \in Blocks(c, Original[c])}
    IN  IF registered = {} THEN Empty ELSE Max(registered)

PciInit ==
    /\ ports = [p \in Ports |-> IF Owner(p) = Empty THEN Empty ELSE p]
    /\ bar = Original
    /\ route = [k \in 0 .. 3 |-> CHOOSE i \in PciLines : TRUE]
    /\ level = [i \in PciLines |-> FALSE]
    /\ asserted = {} /\ dropped = {} /\ ranges_restored = FALSE

-----------------------------------------------------------------------------
(* The ranges.                                                             *)

\* A mutant of EntryAfter: what was at the old port is what goes to the new one.
EntryFromOld(table, c, from, to, p) ==
    IF p < FirstMovable THEN table[p]
    ELSE IF p \in Blocks(c, to) /\ ~ (from < to /\ p \in Blocks(c, from)) THEN table[from + (p - to)]
    ELSE IF p \in Blocks(c, from) THEN Empty
    ELSE table[p]

\* What the loop of set_io_bars leaves at port p.  Block by block the old port is
\* emptied, whatever was there, and then the card's own entry goes to the new
\* one; a port that is both is first a new one if the range moves up, and then
\* emptied.  The ports below FirstMovable are passed over.
EntryAfter(table, c, from, to, p) ==
    IF p < FirstMovable THEN table[p]
    ELSE IF p \in Blocks(c, to) /\ ~ (from < to /\ p \in Blocks(c, from)) THEN Original[c] + (p - to)
    ELSE IF p \in Blocks(c, from) THEN Empty
    ELSE table[p]

SetIoBars(table, c, from, to) == [p \in Ports |-> EntryAfter(table, c, from, to, p)]

Disjoint(ranges) ==
    \A c, d \in Cards : c # d => Blocks(c, ranges[c]) \cap Blocks(d, ranges[d]) = {}

\* Ranges are put at multiples of their size, from 1000h on, and neither where
\* another card was made nor where a size check puts one.  set_io_bars does not
\* see to any of this.
RangesApart ==
    /\ \A p \in Pool : p >= FirstMovable
    /\ \A c \in Cards : \A to \in Pool \cup {Original[c]} :
        /\ \A from \in Pool \cup {Original[c], Top(c)} :
            from # to => Blocks(c, from) \cap Blocks(c, to) = {}
        /\ \A d \in Cards \ {c} :
            Blocks(c, to) \cap (Blocks(d, Original[d]) \cup Blocks(d, Top(d))) = {}

\* pci_write32 of the address register: the range moves, the register keeps what
\* was written.
WriteBar(c, to) ==
    /\ ports' = SetIoBars(ports, c, bar[c], to)
    /\ bar' = [bar EXCEPT ![c] = to]
    /\ UNCHANGED <<ranges_restored, lines>>

\* The size check, all ones, moves the range to the end of the ports too.
SizeCheck == \E c \in Cards : WriteBar(c, Top(c))

\* An assignment, or the value from before the check; no two cards get the same
\* port.
Assign ==
    \E c \in Cards : \E to \in Pool \cup {Original[c]} :
        /\ \A d \in Cards \ {c} : Blocks(c, to) \cap Blocks(d, bar[d]) = {}
        /\ WriteBar(c, to)

\* set_state: card after card, from the range it was made with, wherever it is in
\* this page.  A port that several cards leave or take is as the last leaves it.
RestoreBars(saved) ==
    LET moves(p) == {c \in Cards : p \in Blocks(c, Original[c]) \cup Blocks(c, saved[c])}
        Restored(p) == IF moves(p) = {} THEN ports[p]
                       ELSE LET c == Max(moves(p)) IN EntryAfter(ports, c, Original[c], saved[c], p)
    IN  [p \in Ports |-> Restored(p)]

SavedBars(c) == Pool \cup {Original[c]}

RestorePci ==
    \E saved \in [Cards -> UNION {SavedBars(c) : c \in Cards}] :
        /\ \A c \in Cards : saved[c] \in SavedBars(c)
        /\ Disjoint(saved)
        /\ ports' = RestoreBars(saved)
        /\ bar' = saved
        /\ ranges_restored' = TRUE
        /\ UNCHANGED lines

-----------------------------------------------------------------------------
(* The lines.                                                              *)

Irq(c) == route[(Pin[c] - 1 + c - 1) % 4]

\* A mutant of IrqToLower: the pin is not counted from zero.
IrqToLowerNextPin(c) == route[(Pin[c] + c - 1) % 4]

\* lower_irq finds the line with a formula of its own.
IrqToLower(c) == route[(Pin[c] + c - 2) % 4]

RaisePciIrq ==
    \E c \in Cards :
        /\ asserted' = asserted \cup {c}
        /\ level' = [level EXCEPT ![Irq(c)] = TRUE]
        /\ dropped' = dropped \ {c}
        /\ UNCHANGED <<route, bars>>

\* A line is not counted: it falls for the others that hold it up as well.
LowerPciIrq ==
    \E c \in Cards :
        /\ asserted' = asserted \ {c}
        /\ level' = [level EXCEPT ![IrqToLower(c)] = FALSE]
        /\ dropped' = (dropped \cup {d \in asserted : Irq(d) = Irq(c)}) \ {c}
        /\ UNCHANGED <<route, bars>>

\* The bridge's registers are written like any other: a line that is up stays up.
WriteRoute ==
    \E k \in 0 .. 3, i \in PciLines :
        /\ route' = [route EXCEPT ![k] = i]
        /\ dropped' = dropped \cup {c \in asserted : Irq(c) # route'[(Pin[c] - 1 + c - 1) % 4]}
        /\ UNCHANGED <<level, asserted, bars>>

-----------------------------------------------------------------------------

RangesNext == SizeCheck \/ Assign \/ RestorePci

LinesNext == RaisePciIrq \/ LowerPciIrq \/ WriteRoute

PciNext == RangesNext \/ LinesNext

RangesSpec == PciInit /\ [][RangesNext]_pci_vars

-----------------------------------------------------------------------------
(* Properties.                                                             *)

Placed(c) == bar[c] # Top(c)

\* However the ranges have been sized, moved and restored, every port of a card's range
\* reaches that card's handlers.
EachAtItsRange ==
    \A c \in Cards : Placed(c) => \A i \in 0 .. RangeSize[c] - 1 : ports[bar[c] + i] = Original[c] + i

\* And no port that was given up still does, the ones that never change and the
\* ones a restore leaves behind apart.
NothingLeftBehind ==
    ~ ranges_restored =>
        \A p \in Ports : p >= FirstMovable /\ ports[p] # Empty => \E c \in Cards : p \in Blocks(c, bar[c])

RangesDecoded == EachAtItsRange /\ NothingLeftBehind

\* A card that asks for service has its line up, until another card that shares
\* it lowers it or the guest routes its pin elsewhere: raise_irq and lower_irq,
\* which compute the line each in their own way, agree for every slot and pin.
LineUpWhileAsserted == \A c \in asserted \ dropped : level[Irq(c)]

\* "gets set via PCI in seabios, likely doesn't matter" (ide.ts:45): wherever the
\* ranges were at first, a port of a range that was assigned reaches its card.
OriginalDoesNotMatter ==
    \A c \in Cards :
        bar[c] \in Pool => \A p \in Blocks(c, bar[c]) : ports[p] # Empty /\ Owner(ports[p]) = c

=============================================================================
