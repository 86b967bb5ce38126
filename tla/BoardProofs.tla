---------------------------- MODULE BoardProofs ----------------------------
(***************************************************************************)
(* Theorems about the parts of the board, for any sizes: the display       *)
(* adapter, the network card, the interrupt lines and the ranges of the    *)
(* PCI bus, and saved states.  Each has an inductive invariant kept by its *)
(* own steps; the theorems are of BoardSpec, in which the part runs or     *)
(* stays as it is.                                                         *)
(***************************************************************************)
EXTENDS Board, Division, FiniteSetTheorems, WellFoundedInduction, TLAPS

-----------------------------------------------------------------------------
(* The lines of the PCI bus.  Besides types nothing is needed: the two     *)
(* formulas that find the line of a card have to agree.                    *)

LinesTypes ==
    /\ asserted \subseteq Cards
    /\ route \in [0 .. 3 -> PciLines] /\ level \in [PciLines -> BOOLEAN]

LinesInv == LinesTypes /\ LineUpWhileAsserted

LEMMA SameLine ==
    ASSUME NEW c \in Cards
    PROVE  IrqToLower(c) = Irq(c) /\ (Pin[c] - 1 + c - 1) % 4 \in 0 .. 3
<1>1. Pin[c] \in Int /\ c \in Int
  BY PciAssumption
<1> QED
  BY <1>1 DEF IrqToLower, Irq

LEMMA LinesInitInv == PciInit => LinesInv
BY PciAssumption DEF PciInit, LinesInv, LinesTypes, LineUpWhileAsserted

LEMMA LinesStep ==
    ASSUME LinesInv, PciNext \/ UNCHANGED pci_vars
    PROVE  LinesInv'
<1> USE DEF LinesInv, LinesTypes
<1>1. CASE RaisePciIrq
  <2>1. PICK c \in Cards :
            /\ asserted' = asserted \cup {c} /\ level' = [level EXCEPT ![Irq(c)] = TRUE]
            /\ dropped' = dropped \ {c} /\ route' = route
    BY <1>1 DEF RaisePciIrq
  <2>2. \A d \in Cards : Irq(d) \in PciLines /\ Irq(d)' = Irq(d)
    BY <2>1, SameLine DEF Irq
  <2>3. LinesTypes'
    BY <2>1, <2>2
  <2>4. ASSUME NEW d \in asserted' \ dropped' PROVE level'[Irq(d)']
    <3>1. d = c \/ d \in asserted \ dropped
      BY <2>1
    <3>2. d \in Cards /\ Irq(d)' = Irq(d) /\ Irq(d) \in PciLines
      BY <2>2, <2>3
    <3> QED
      BY <2>1, <3>1, <3>2 DEF LineUpWhileAsserted
  <2> QED
    BY <2>3, <2>4 DEF LineUpWhileAsserted
<1>2. CASE LowerPciIrq
  <2>1. PICK c \in Cards :
            /\ asserted' = asserted \ {c} /\ level' = [level EXCEPT ![IrqToLower(c)] = FALSE]
            /\ dropped' = (dropped \cup {d \in asserted : Irq(d) = Irq(c)}) \ {c} /\ route' = route
    BY <1>2 DEF LowerPciIrq
  <2>2. /\ IrqToLower(c) = Irq(c)
        /\ \A d \in Cards : Irq(d) \in PciLines /\ Irq(d)' = Irq(d)
    BY <2>1, SameLine DEF Irq
  <2>3. LinesTypes'
    BY <2>1, <2>2
  <2>4. ASSUME NEW d \in asserted' \ dropped' PROVE level'[Irq(d)']
    <3>1. d \in asserted \ dropped /\ Irq(d) # Irq(c) /\ d \in Cards
      BY <2>1
    <3> QED
      BY <2>1, <2>2, <3>1 DEF LineUpWhileAsserted
  <2> QED
    BY <2>3, <2>4 DEF LineUpWhileAsserted
<1>3. CASE WriteRoute
  <2>1. PICK k \in 0 .. 3, i \in PciLines :
            /\ route' = [route EXCEPT ![k] = i]
            /\ dropped' = dropped \cup {c \in asserted : Irq(c) # route'[(Pin[c] - 1 + c - 1) % 4]}
            /\ UNCHANGED <<level, asserted>>
    BY <1>3 DEF WriteRoute
  <2>2. LinesTypes'
    BY <2>1
  <2>3. ASSUME NEW d \in asserted' \ dropped' PROVE level'[Irq(d)']
    <3>1. d \in asserted \ dropped /\ Irq(d)' = Irq(d)
      BY <2>1 DEF Irq
    <3> QED
      BY <2>1, <3>1 DEF LineUpWhileAsserted
  <2> QED
    BY <2>2, <2>3 DEF LineUpWhileAsserted
<1>4. CASE RangesNext \/ UNCHANGED pci_vars
  <2>1. UNCHANGED lines
    BY <1>4 DEF RangesNext, SizeCheck, Assign, WriteBar, RestorePci, pci_vars
  <2> QED
    BY <2>1 DEF lines, LineUpWhileAsserted, Irq
<1> QED
  BY <1>1, <1>2, <1>3, <1>4 DEF PciNext, LinesNext

-----------------------------------------------------------------------------
(* The ranges of the PCI bus, on a board whose ranges do not meet.  Moving *)
(* one empties and fills ports without looking at them, so the invariant   *)
(* says where ranges may be: where firmware puts them, or at the end of    *)
(* the ports for a size check; and two that are placed have no port in     *)
(* common.  The ports that never move keep the entries of the start.       *)

BarsKnown == \A c \in Cards : bar[c] \in Pool \cup {Original[c], Top(c)}

PlacedApart ==
    \A c, d \in Cards : c # d /\ Placed(c) /\ Placed(d) => Blocks(c, bar[c]) \cap Blocks(d, bar[d]) = {}

FixedStay ==
    \A c \in Cards : \A p \in Blocks(c, Original[c]) : p < FirstMovable => ports[p] = p

RangesInv ==
    /\ bar = [c \in Cards |-> bar[c]] /\ ports = [p \in Ports |-> ports[p]]
    /\ BarsKnown /\ PlacedApart /\ FixedStay /\ RangesDecoded

\* Where the blocks of a range are.
LEMMA RangesAre ==
    ASSUME NEW c \in Cards
    PROVE  /\ RangeSize[c] \in Nat \ {0} /\ Original[c] \in Int /\ Top(c) \in Int
           /\ \A a \in Int : \A p : p \in Blocks(c, a) <=> p \in Int /\ a <= p /\ p < a + RangeSize[c]
           /\ \A a \in Pool \cup {Original[c], Top(c)} : a \in Int /\ Blocks(c, a) \subseteq Ports
<1>1. /\ RangeSize[c] \in Nat \ {0} /\ Blocks(c, Original[c]) \subseteq Ports /\ Original[c] \in Int
      /\ \A p \in Pool : p \in Int /\ Blocks(c, p) \subseteq Ports
      /\ Top(c) \in Ports /\ NPorts \in Nat
  BY PciAssumption
<1>2. Top(c) \in Int /\ Blocks(c, Top(c)) \subseteq Ports
  BY <1>1 DEF Blocks, Ports, Top
<1>3. \A a \in Int : \A p : p \in Blocks(c, a) <=> p \in Int /\ a <= p /\ p < a + RangeSize[c]
  BY <1>1 DEF Blocks
<1> QED
  BY <1>1, <1>2, <1>3

LEMMA PoolIsMovable == \A p \in Pool : p \in Nat /\ p >= FirstMovable
BY PciAssumption, BoardAssumption DEF RangesApart

\* No two ranges a card may have meet, nor does one meet the places of another.
LEMMA OwnPlaces ==
    ASSUME NEW c \in Cards, NEW to \in Pool \cup {Original[c]},
           NEW from \in Pool \cup {Original[c], Top(c)}, from # to, NEW p \in Blocks(c, to)
    PROVE  p \notin Blocks(c, from)
BY BoardAssumption DEF RangesApart

LEMMA OthersPlaces ==
    ASSUME NEW c \in Cards, NEW to \in Pool \cup {Original[c]}, NEW d \in Cards, d # c,
           NEW p \in Blocks(c, to)
    PROVE  p \notin Blocks(d, Original[d]) /\ p \notin Blocks(d, Top(d))
BY BoardAssumption DEF RangesApart

\* A range that is placed meets no other, placed or not.
LEMMA PlacedAlone ==
    ASSUME BarsKnown, PlacedApart, NEW c \in Cards, Placed(c), NEW d \in Cards, d # c,
           NEW p \in Blocks(c, bar[c])
    PROVE  p \notin Blocks(d, bar[d])
<1>1. bar[c] \in Pool \cup {Original[c]}
  BY DEF BarsKnown, Placed
<1>2. CASE Placed(d)
  BY <1>2 DEF PlacedApart
<1>3. CASE ~ Placed(d)
  BY <1>1, <1>3, OthersPlaces DEF Placed
<1> QED
  BY <1>2, <1>3

LEMMA RangesInitInv == PciInit => RangesInv
<1> SUFFICES ASSUME PciInit PROVE RangesInv
  OBVIOUS
<1>1. /\ bar = Original /\ ranges_restored = FALSE /\ Original = [c \in Cards |-> Original[c]]
      /\ ports = [p \in Ports |-> IF Owner(p) = Empty THEN Empty ELSE p]
  BY PciAssumption DEF PciInit
<1>2. BarsKnown /\ PlacedApart
  BY <1>1, OthersPlaces DEF BarsKnown, PlacedApart
<1>3. ASSUME NEW c \in Cards, NEW p \in Blocks(c, Original[c]) PROVE p \in Ports /\ ports[p] = p
  <2>1. p \in Ports
    BY <1>3, RangesAre
  <2>2. {d \in Cards : p \in Blocks(d, Original[d])} = {c}
    BY <1>3, OthersPlaces
  <2>3. Max({c}) = c /\ c # Empty
    BY PciAssumption DEF Max, Empty
  <2>4. Owner(p) = c
    BY <2>2, <2>3 DEF Owner
  <2> QED
    BY <1>1, <2>1, <2>3, <2>4
<1>4. EachAtItsRange
  <2> SUFFICES ASSUME NEW c \in Cards, NEW i \in 0 .. RangeSize[c] - 1
               PROVE  ports[bar[c] + i] = Original[c] + i
    BY DEF EachAtItsRange
  <2>1. Original[c] + i \in Blocks(c, Original[c])
    BY RangesAre
  <2> QED
    BY <1>1, <1>3, <2>1
<1>5. NothingLeftBehind
  <2> SUFFICES ASSUME NEW p \in Ports, ports[p] # Empty
               PROVE  \E c \in Cards : p \in Blocks(c, bar[c])
    BY DEF NothingLeftBehind
  <2>1. {c \in Cards : p \in Blocks(c, Original[c])} # {}
    BY <1>1 DEF Owner
  <2> QED
    BY <1>1, <2>1
<1>6. FixedStay
  BY <1>3 DEF FixedStay
<1> QED
  BY <1>1, <1>2, <1>4, <1>5, <1>6 DEF RangesInv, RangesDecoded

\* A size check or an assignment.
LEMMA RangeMoves ==
    ASSUME RangesInv, NEW c \in Cards, NEW to \in Pool \cup {Original[c], Top(c)}, WriteBar(c, to),
           to # Top(c) => \A d \in Cards \ {c} : Blocks(c, to) \cap Blocks(d, bar[d]) = {}
    PROVE  RangesInv'
<1>1. /\ bar = [d \in Cards |-> bar[d]] /\ bar' = [bar EXCEPT ![c] = to]
      /\ ports = [p \in Ports |-> ports[p]] /\ ranges_restored' = ranges_restored
      /\ ports' = [p \in Ports |-> EntryAfter(ports, c, bar[c], to, p)]
  BY DEF WriteBar, SetIoBars, RangesInv
<1> HIDE DEF WriteBar
<1>2. /\ BarsKnown /\ PlacedApart /\ FixedStay /\ EachAtItsRange /\ NothingLeftBehind
  BY DEF RangesInv, RangesDecoded
<1>3. bar[c] \in Pool \cup {Original[c], Top(c)} /\ bar[c] \in Int /\ to \in Int
  BY <1>2, RangesAre DEF BarsKnown
<1>4. bar'[c] = to /\ \A d \in Cards \ {c} : bar'[d] = bar[d]
  BY <1>1
<1>5. BarsKnown'
  BY <1>2, <1>4 DEF BarsKnown
<1>6. PlacedApart'
  BY <1>2, <1>4 DEF PlacedApart, Placed
<1>7. ASSUME NEW p \in Ports, (p \notin Blocks(c, bar[c]) /\ p \notin Blocks(c, to)) \/ p < FirstMovable
      PROVE  ports'[p] = ports[p]
  BY <1>1, <1>7 DEF EntryAfter
<1>8. FixedStay'
  <2> SUFFICES ASSUME NEW d \in Cards, NEW p \in Blocks(d, Original[d]), p < FirstMovable
               PROVE  ports'[p] = p
    BY DEF FixedStay
  <2>1. p \in Ports
    BY RangesAre
  <2> QED
    BY <1>2, <1>7, <2>1 DEF FixedStay
<1>9. EachAtItsRange'
  <2> SUFFICES ASSUME NEW d \in Cards, bar'[d] # Top(d), NEW i \in 0 .. RangeSize[d] - 1
               PROVE  ports'[bar'[d] + i] = Original[d] + i
    BY DEF EachAtItsRange, Placed
  <2>1. CASE d = c
    <3>1. to # Top(c) /\ to \in Pool \cup {Original[c]}
      BY <1>4, <2>1
    <3>2. to + i \in Blocks(c, to) /\ to + i \in Ports /\ RangeSize[c] \in Nat \ {0} /\ Original[c] \in Int
      BY <1>3, <2>1, RangesAre
    <3>3. CASE to + i >= FirstMovable
      <4>1. ~ (bar[c] < to /\ to + i \in Blocks(c, bar[c]))
        BY <1>3, <3>1, <3>2, OwnPlaces
      <4>2. ~ (to + i < FirstMovable)
        BY <1>3, <3>3, PciAssumption
      <4>3. EntryAfter(ports, c, bar[c], to, to + i) = Original[c] + ((to + i) - to)
        BY <3>2, <4>1, <4>2 DEF EntryAfter
      <4> QED
        BY <1>1, <1>3, <1>4, <2>1, <3>2, <4>3
    <3>4. CASE to + i < FirstMovable
      <4>1. to = Original[c]
        BY <3>1, <3>4, PoolIsMovable, PciAssumption
      <4>2. ports[to + i] = to + i
        BY <1>2, <3>2, <3>4, <4>1 DEF FixedStay
      <4> QED
        BY <1>4, <1>7, <2>1, <3>2, <3>4, <4>1, <4>2
    <3> QED
      BY <1>3, <3>3, <3>4, PciAssumption
  <2>2. CASE d # c
    <3>1. Placed(d) /\ bar'[d] = bar[d] /\ bar[d] \in Pool \cup {Original[d]}
      BY <1>2, <1>4, <2>2 DEF Placed, BarsKnown
    <3>2. bar[d] + i \in Blocks(d, bar[d]) /\ bar[d] + i \in Ports
      BY <3>1, RangesAre
    <3>3. bar[d] + i \notin Blocks(c, bar[c])
      BY <1>2, <2>2, <3>1, <3>2, PlacedAlone
    <3>4. bar[d] + i \notin Blocks(c, to)
      <4>1. CASE to = Top(c)
        BY <2>2, <3>1, <3>2, <4>1, OthersPlaces
      <4>2. CASE to # Top(c)
        BY <2>2, <3>2, <4>2
      <4> QED
        BY <4>1, <4>2
    <3> QED
      BY <1>2, <1>7, <3>1, <3>2, <3>3, <3>4 DEF EachAtItsRange
  <2> QED
    BY <2>1, <2>2
<1>10. NothingLeftBehind'
  <2> SUFFICES ASSUME ~ ranges_restored, NEW p \in Ports, p >= FirstMovable, ports'[p] # Empty
               PROVE  \E d \in Cards : p \in Blocks(d, bar'[d])
    BY <1>1 DEF NothingLeftBehind
  <2>1. CASE p \in Blocks(c, to)
    BY <1>4, <2>1
  <2>2. CASE p \notin Blocks(c, to)
    <3>1. p \notin Blocks(c, bar[c]) /\ ports'[p] = ports[p]
      BY <1>1, <2>2, PciAssumption DEF EntryAfter, Ports
    <3>2. PICK d \in Cards : p \in Blocks(d, bar[d])
      BY <1>2, <3>1 DEF NothingLeftBehind
    <3> QED
      BY <1>4, <3>1, <3>2
  <2> QED
    BY <2>1, <2>2
<1>11. bar' = [d \in Cards |-> bar'[d]] /\ ports' = [p \in Ports |-> ports'[p]]
  BY <1>1
<1> QED
  BY <1>5, <1>6, <1>8, <1>9, <1>10, <1>11 DEF RangesInv, RangesDecoded

\* After a restore the range of a card is where the state has it: no other card
\* has left or taken its ports.
LEMMA RangesRestored ==
    ASSUME RangesInv, RestorePci
    PROVE  RangesInv'
<1>1. PICK saved \in [Cards -> UNION {SavedBars(c) : c \in Cards}] :
          /\ \A c \in Cards : saved[c] \in Pool \cup {Original[c]}
          /\ Disjoint(saved)
          /\ ports' = RestoreBars(saved) /\ bar' = saved /\ ranges_restored' = TRUE
  BY DEF RestorePci, SavedBars
<1> DEFINE Moves(p) == {c \in Cards : p \in Blocks(c, Original[c]) \cup Blocks(c, saved[c])}
<1>2. /\ ports' = [p \in Ports |-> ports'[p]]
      /\ \A p \in Ports :
            ports'[p] = IF Moves(p) = {} THEN ports[p]
                        ELSE EntryAfter(ports, Max(Moves(p)), Original[Max(Moves(p))], saved[Max(Moves(p))], p)
  BY <1>1 DEF RestoreBars
<1>3. BarsKnown' /\ PlacedApart' /\ NothingLeftBehind'
  BY <1>1 DEF BarsKnown, PlacedApart, Placed, Disjoint, NothingLeftBehind
<1>4. ASSUME NEW p \in Ports, p < FirstMovable PROVE ports'[p] = ports[p]
  BY <1>2, <1>4 DEF EntryAfter
<1>5. FixedStay'
  <2> SUFFICES ASSUME NEW d \in Cards, NEW p \in Blocks(d, Original[d]), p < FirstMovable
               PROVE  ports'[p] = p
    BY DEF FixedStay
  <2>1. p \in Ports
    BY RangesAre
  <2> QED
    BY <1>4, <2>1 DEF FixedStay, RangesInv
<1>6. EachAtItsRange'
  <2> SUFFICES ASSUME NEW c \in Cards, NEW i \in 0 .. RangeSize[c] - 1
               PROVE  ports'[saved[c] + i] = Original[c] + i
    BY <1>1 DEF EachAtItsRange
  <2>1. saved[c] \in Pool \cup {Original[c]} /\ saved[c] \in Int
    BY <1>1, RangesAre
  <2>2. /\ RangeSize[c] \in Nat \ {0} /\ Original[c] \in Int /\ Blocks(c, saved[c]) \subseteq Ports
        /\ \A p : p \in Blocks(c, saved[c]) <=> p \in Int /\ saved[c] <= p /\ p < saved[c] + RangeSize[c]
    BY <2>1, RangesAre
  <2>3. saved[c] + i \in Blocks(c, saved[c]) /\ saved[c] + i \in Ports
    BY <2>1, <2>2
  <2>4. CASE saved[c] + i >= FirstMovable
    <3>1. Moves(saved[c] + i) = {c}
      BY <1>1, <2>1, <2>2, <2>3, OthersPlaces DEF Disjoint
    <3>2. Max({c}) = c
      BY PciAssumption DEF Max
    <3>3. ~ (Original[c] < saved[c] /\ saved[c] + i \in Blocks(c, Original[c]))
      BY <2>1, <2>2, <2>3, OwnPlaces
    <3>4. ~ (saved[c] + i < FirstMovable)
      BY <2>1, <2>4, PciAssumption
    <3>5. EntryAfter(ports, c, Original[c], saved[c], saved[c] + i) = Original[c] + ((saved[c] + i) - saved[c])
      BY <2>2, <2>3, <3>3, <3>4 DEF EntryAfter
    <3>6. ports'[saved[c] + i] = EntryAfter(ports, c, Original[c], saved[c], saved[c] + i)
      BY <1>2, <2>2, <2>3, <3>1, <3>2
    <3> QED
      BY <2>1, <2>2, <2>3, <3>5, <3>6
  <2>5. CASE saved[c] + i < FirstMovable
    <3>1. saved[c] = Original[c]
      BY <2>1, <2>5, PoolIsMovable, PciAssumption
    <3>2. ports[saved[c] + i] = saved[c] + i
      BY <2>2, <2>3, <2>5, <3>1 DEF FixedStay, RangesInv
    <3> QED
      BY <1>4, <2>2, <2>3, <2>5, <3>1, <3>2
  <2> QED
    BY <2>1, <2>4, <2>5, PciAssumption
<1>7. bar' = [c \in Cards |-> bar'[c]]
  BY <1>1
<1> QED
  BY <1>2, <1>3, <1>5, <1>6, <1>7 DEF RangesInv, RangesDecoded

LEMMA RangesStep ==
    ASSUME RangesInv, PciNext \/ UNCHANGED pci_vars
    PROVE  RangesInv'
<1>1. CASE SizeCheck
  BY <1>1, RangeMoves DEF SizeCheck
<1>2. CASE Assign
  <2>1. PICK c \in Cards : \E to \in Pool \cup {Original[c]} :
            /\ \A d \in Cards \ {c} : Blocks(c, to) \cap Blocks(d, bar[d]) = {}
            /\ WriteBar(c, to)
    BY <1>2 DEF Assign
  <2>2. PICK to \in Pool \cup {Original[c]} :
            /\ \A d \in Cards \ {c} : Blocks(c, to) \cap Blocks(d, bar[d]) = {}
            /\ WriteBar(c, to)
    BY <2>1
  <2> QED
    BY <2>2, RangeMoves
<1>3. CASE RestorePci
  BY <1>3, RangesRestored
<1>4. CASE LinesNext \/ UNCHANGED pci_vars
  <2>1. UNCHANGED bars
    BY <1>4 DEF LinesNext, RaisePciIrq, LowerPciIrq, WriteRoute, pci_vars
  <2> QED
    BY <2>1 DEF bars, RangesInv, BarsKnown, PlacedApart, Placed, FixedStay, RangesDecoded,
                EachAtItsRange, NothingLeftBehind
<1> QED
  BY <1>1, <1>2, <1>3, <1>4 DEF PciNext, RangesNext

-----------------------------------------------------------------------------
(* The layers of the display: they are what update_layers makes of the     *)
(* registers as long as the picture has a width, which svga leaves behind. *)

VgaTypes ==
    /\ r \in Registers /\ graphical_mode \in BOOLEAN /\ svga_enabled \in BOOLEAN
    /\ virtual_width \in Nat

WidthSet ==
    /\ svga_enabled => graphical_mode
    /\ graphical_mode => virtual_width > 0

LayersInv == VgaTypes /\ WidthSet /\ LayersFollow

LEMMA LayersInitInv == VgaInit => LayersInv
<1> SUFFICES ASSUME VgaInit PROVE LayersInv
  OBVIOUS
<1>1. graphical_mode \in BOOLEAN /\ svga_enabled \in BOOLEAN /\ ~ graphical_mode /\ ~ svga_enabled
  BY Zenon DEF VgaInit
<1>2. r \in Registers /\ virtual_width \in Nat
  BY DEF VgaInit, TextMode
<1> QED
  BY <1>1, <1>2, Zenon DEF LayersInv, VgaTypes, WidthSet, LayersFollow, Shows

\* The actions in groups, by what they do to the window on the picture.
LEMMA UpdateVgaSizeDoes ==
    ASSUME NEW reg \in Registers, NEW graphical \in BOOLEAN, VgaTypes, UpdateVgaSize(reg, graphical)
    PROVE  /\ virtual_width' \in Nat
           /\ Shows(graphical, svga_enabled) =>
                  /\ virtual_width' > 0
                  /\ layers' = IF reg.off THEN {} ELSE {Layers(reg, virtual_width', start_address_latched')}
           /\ ~ Shows(graphical, svga_enabled) => UNCHANGED window
<1>1. reg.offset \in Nat \ {0}
  BY RegisterAssumption DEF Registers
<1> QED
  BY <1>1 DEF UpdateVgaSize, UpdatedLayers, window, VgaTypes

LEMMA LayersStep ==
    ASSUME LayersInv, [VgaNext]_vga_vars
    PROVE  LayersInv'
<1> USE DEF LayersInv
<1>1. CASE AttributeMode
  <2>1. PICK graphics \in BOOLEAN, pel \in BOOLEAN :
            /\ r' = [r EXCEPT !.graphics = graphics, !.pel = pel]
            /\ graphical_mode' = IF svga_enabled THEN graphical_mode ELSE graphics
            /\ UpdateVgaSize(r', graphical_mode')
            /\ svga_enabled' = svga_enabled
    BY <1>1 DEF AttributeMode
  <2>2. r' \in Registers
    BY <2>1 DEF VgaTypes, Registers
  <2>3. graphical_mode' \in BOOLEAN /\ svga_enabled' \in BOOLEAN /\ (svga_enabled' => graphical_mode')
    BY <2>1, Zenon DEF VgaTypes, WidthSet
  <2>4. /\ virtual_width' \in Nat
        /\ Shows(graphical_mode', svga_enabled) =>
              /\ virtual_width' > 0
              /\ layers' = IF r'.off THEN {} ELSE {Layers(r', virtual_width', start_address_latched')}
        /\ ~ Shows(graphical_mode', svga_enabled) => UNCHANGED window
    BY <2>1, <2>2, <2>3, UpdateVgaSizeDoes
  <2>5. graphical_mode' => virtual_width' > 0
    BY <2>1, <2>4 DEF WidthSet, Shows, window
  <2> QED
    BY <2>1, <2>2, <2>3, <2>4, <2>5 DEF VgaTypes, WidthSet, LayersFollow, Shows
<1>2. CASE CrtcMode \/ OffsetRegister \/ SizeRegister
  <2>1. r' \in Registers /\ UpdateVgaSize(r', graphical_mode) /\ UNCHANGED mode
    <3>1. CASE CrtcMode
      <4>1. PICK scale \in Scales, banks \in Banks : r' = [r EXCEPT !.scale = scale, !.banks = banks]
        BY <1>2, <3>1 DEF CrtcMode
      <4> QED
        BY <3>1, <4>1 DEF CrtcMode, VgaTypes, Registers
    <3>2. CASE OffsetRegister
      <4>1. PICK offset \in Offsets : r' = [r EXCEPT !.offset = offset]
        BY <1>2, <3>2 DEF OffsetRegister
      <4> QED
        BY <3>2, <4>1 DEF OffsetRegister, VgaTypes, Registers
    <3>3. CASE SizeRegister
      BY <3>3 DEF SizeRegister, VgaTypes
    <3> QED
      BY <1>2, <3>1, <3>2, <3>3
  <2>2. UNCHANGED <<graphical_mode, svga_enabled>>
    BY <2>1 DEF mode
  <2>3. graphical_mode \in BOOLEAN /\ graphical_mode' \in BOOLEAN /\ svga_enabled' \in BOOLEAN
        /\ (svga_enabled' => graphical_mode')
    BY <2>2, Zenon DEF VgaTypes, WidthSet
  <2>4. /\ virtual_width' \in Nat
        /\ Shows(graphical_mode, svga_enabled) =>
              /\ virtual_width' > 0
              /\ layers' = IF r'.off THEN {} ELSE {Layers(r', virtual_width', start_address_latched')}
        /\ ~ Shows(graphical_mode, svga_enabled) => UNCHANGED window
    BY <2>1, <2>3, UpdateVgaSizeDoes
  <2> QED
    BY <2>1, <2>2, <2>3, <2>4 DEF VgaTypes, WidthSet, LayersFollow, Shows, window
<1>3. CASE ScreenOff \/ StartAddress
  <2>1. r' \in Registers /\ UpdateLayers(r') /\ UNCHANGED mode
    <3>1. CASE ScreenOff
      <4>1. PICK off \in BOOLEAN : r' = [r EXCEPT !.off = off]
        BY <1>3, <3>1 DEF ScreenOff
      <4> QED
        BY <3>1, <4>1 DEF ScreenOff, VgaTypes, Registers
    <3>2. CASE StartAddress
      <4>1. PICK start \in Starts : r' = [r EXCEPT !.start = start]
        BY <1>3, <3>2 DEF StartAddress
      <4> QED
        BY <3>2, <4>1 DEF StartAddress, VgaTypes, Registers
    <3> QED
      BY <1>3, <3>1, <3>2
  <2>2. UNCHANGED <<graphical_mode, svga_enabled, virtual_width, start_address_latched>>
    BY <2>1 DEF mode, UpdateLayers
  <2>3. graphical_mode' \in BOOLEAN /\ svga_enabled' \in BOOLEAN /\ WidthSet'
    BY <2>2, Zenon DEF VgaTypes, WidthSet
  <2> QED
    BY <2>1, <2>2, <2>3 DEF VgaTypes, WidthSet, LayersFollow, Shows, UpdateLayers, UpdatedLayers
<1>4. CASE SvgaEnable
  <2>1. svga_enabled' = TRUE /\ graphical_mode' = TRUE /\ virtual_width' = SvgaWidth /\ r' = r
    BY <1>4 DEF SvgaEnable
  <2>2. graphical_mode' \in BOOLEAN /\ svga_enabled' \in BOOLEAN /\ svga_enabled' /\ graphical_mode'
    BY <2>1, Zenon
  <2> QED
    BY <2>1, <2>2, SizeAssumption DEF VgaTypes, WidthSet, LayersFollow, Shows
<1>5. CASE SvgaDisable
  <2>1. /\ svga_enabled' = FALSE /\ layers' = UpdatedLayers(r, FALSE, virtual_width, start_address_latched)
        /\ UNCHANGED <<r, graphical_mode, virtual_width, start_address_latched>>
    BY <1>5 DEF SvgaDisable
  <2>2. graphical_mode' \in BOOLEAN /\ svga_enabled' \in BOOLEAN /\ ~ svga_enabled'
    BY <2>1, Zenon DEF VgaTypes
  <2> QED
    BY <2>1, <2>2 DEF VgaTypes, WidthSet, LayersFollow, Shows, UpdatedLayers
<1>6. CASE ScreenFillBuffer
  <2>1. /\ UNCHANGED <<r, graphical_mode, svga_enabled, virtual_width>> /\ start_address_latched' = r.start
        /\ layers' = IF start_address_latched = r.start THEN layers
                     ELSE UpdatedLayers(r, svga_enabled, virtual_width, r.start)
    BY <1>6 DEF ScreenFillBuffer, UpdateVerticalRetrace, mode
  <2>2. graphical_mode' \in BOOLEAN /\ svga_enabled' \in BOOLEAN /\ WidthSet'
    BY <2>1, Zenon DEF VgaTypes, WidthSet
  <2> QED
    BY <2>1, <2>2 DEF VgaTypes, WidthSet, LayersFollow, Shows, UpdatedLayers
<1>7. CASE Reload
  <2> DEFINE shown == Shows(graphical_mode, svga_enabled)
             width == IF shown THEN r.offset ELSE IF svga_enabled THEN SvgaWidth ELSE 0
  <2>1. /\ UNCHANGED <<r, graphical_mode, svga_enabled>> /\ virtual_width' = width
        /\ shown => start_address_latched' = r.start /\ layers' = UpdatedLayers(r, FALSE, width, r.start)
    BY <1>7 DEF Reload, mode
  <2>2. graphical_mode' \in BOOLEAN /\ svga_enabled' \in BOOLEAN /\ (svga_enabled' => graphical_mode')
    BY <2>1, Zenon DEF VgaTypes, WidthSet
  <2>3. r.offset \in Nat \ {0} /\ SvgaWidth \in Nat \ {0}
    BY RegisterAssumption, SizeAssumption DEF VgaTypes, Registers
  <2>4. width \in Nat /\ (graphical_mode => width > 0)
    BY <2>3 DEF Shows
  <2> QED
    BY <2>1, <2>2, <2>4 DEF VgaTypes, WidthSet, LayersFollow, Shows, UpdatedLayers
<1>8. CASE InternalPalette \/ ColorRegisters \/ Palette \/ ShiftMode
           \/ (\E a \in Addresses : Write(a)) \/ UNCHANGED vga_vars
  <2>1. UNCHANGED <<r, graphical_mode, svga_enabled, virtual_width, start_address_latched, layers>>
    BY <1>8 DEF InternalPalette, ColorRegisters, Palette, Recolored, ShiftMode, Write, mode, window, vga_vars
  <2>2. graphical_mode' \in BOOLEAN /\ svga_enabled' \in BOOLEAN /\ WidthSet'
    BY <2>1, Zenon DEF VgaTypes, WidthSet
  <2> QED
    BY <2>1, <2>2 DEF VgaTypes, LayersFollow, Shows
<1> QED
  BY <1>1, <1>2, <1>3, <1>4, <1>5, <1>6, <1>7, <1>8 DEF VgaNext


-----------------------------------------------------------------------------
(* What is wrong in the two caches is marked.  While svga shows its own    *)
(* picture nothing is, which the invariant has to say, and what the planes *)
(* make wrong must stay marked in text modes too, for the mode to come.    *)

MarkTypes ==
    /\ stale \subseteq Groups /\ unpainted \subseteq Groups /\ unmarked \subseteq Groups
    /\ diff_plot \subseteq Groups /\ diff_addr \subseteq Groups

Marked ==
    /\ stale \subseteq unmarked \cup (diff_plot \cap diff_addr)
    /\ svga_enabled => unmarked = Groups
    /\ Shows(graphical_mode, svga_enabled) => unpainted \subseteq unmarked \cup diff_addr

MarkInv == VgaTypes /\ WidthSet /\ MarkTypes /\ Marked

\* A product has its factors as quotient and, below the divisor, as remainder.
LEMMA Quotients ==
    ASSUME NEW q \in Int, NEW m \in Nat \ {0}, NEW rest \in 0 .. m - 1
    PROVE  (q * m + rest) \div m = q /\ (q * m + rest) % m = rest
OBVIOUS

\* A group is some row's, at some place of it.
LEMMA RowAndPlace ==
    ASSUME NEW m \in Nat \ {0}, NEW g \in Nat
    PROVE  g \div m \in Nat /\ g % m \in 0 .. m - 1 /\ (g \div m) * m + (g % m) = g
OBVIOUS

LEMMA Product ==
    ASSUME NEW a \in Nat, NEW b \in Nat
    PROVE  a * b \in Nat
OBVIOUS

\* vga_addr_to_pixel finds the group that vga_replot reads from an address.
LEMMA GroupOfSource ==
    ASSUME NEW reg \in Registers, NEW width \in Nat \ {0}, NEW g \in Groups,
           InBank(reg, width, g), reg.banks > 1 => reg.start = 0
    PROVE  GroupOf(reg, width, Source(reg, width, g)) = g
<1> DEFINE banks == reg.banks
           scale == reg.scale
<1>1. banks \in Nat \ {0} /\ scale \in Nat \ {0} /\ BankSize \in Nat \ {0}
  BY RegisterAssumption, SizeAssumption DEF Registers
<1>2. g \in Nat
  BY SizeAssumption DEF Groups
<1>3. CASE banks = 1
  <2>1. 0 \in 0 .. scale - 1
    BY <1>1
  <2>2. (g * scale + 0) \div scale = g
    <3>1. scale \in Nat \ {0} /\ g \in Int /\ 0 \in 0 .. scale - 1
      BY <1>1, <1>2, <2>1
    <3> HIDE DEF scale
    <3> QED
      BY <3>1, Quotients
  <2>3. g * scale \in Nat
    BY <1>1, <1>2, Product
  <2>4. g * scale + 0 = g * scale
    BY <2>3
  <2> QED
    BY <1>3, <2>2, <2>4 DEF GroupOf, Source
<1>4. CASE banks > 1
  <2> DEFINE row == g \div width
             x == g % width
             turn == row % banks
             above == row \div banks
             p == above * width + x
             y == p * scale
  <2>1. row \in Nat /\ x \in 0 .. width - 1 /\ row * width + x = g
    BY <1>2, RowAndPlace
  <2>2. above \in Nat /\ turn \in 0 .. banks - 1 /\ above * banks + turn = row
    BY <1>1, <2>1, RowAndPlace
  <2>3. Source(reg, width, g) = turn * BankSize + y + reg.start
    BY <1>4 DEF Source
  <2>4. y < BankSize
    BY <1>4 DEF InBank
  <2>5. reg.start = 0
    BY <1>4
  <2> DEFINE a == turn * BankSize + y
  <2>6. GroupOf(reg, width, a) =
            (((((a - 0) % BankSize) \div scale) \div width) * banks + ((a \div BankSize) % banks)) * width
            + ((((a - 0) % BankSize) \div scale) % width) + 0 \div scale
    BY <1>4, <2>5 DEF GroupOf
  <2> HIDE DEF row, x, turn, above
  <2>7. p \in Nat /\ p \div width = above /\ p % width = x
    <3>1. above \in Int /\ x \in 0 .. width - 1
      BY <2>1, <2>2
    <3>2. (above * width + x) \div width = above /\ (above * width + x) % width = x
      BY <3>1, Quotients
    <3>3. above * width \in Nat
      BY <2>2, Product
    <3> QED
      BY <3>1, <3>2, <3>3
  <2> HIDE DEF p
  <2>8. y \in Nat /\ y \div scale = p
    <3>1. scale \in Nat \ {0} /\ p \in Int /\ 0 \in 0 .. scale - 1
      BY <1>1, <2>7
    <3> HIDE DEF scale
    <3>2. p * scale \in Nat
      BY <2>7, <3>1, Product
    <3>3. (p * scale + 0) \div scale = p
      BY <3>1, Quotients
    <3>4. p * scale + 0 = p * scale
      BY <3>2
    <3> QED
      BY <3>2, <3>3, <3>4
  <2> HIDE DEF y
  <2>9. a \in Int /\ a \div BankSize = turn /\ a % BankSize = y
    <3>1. y \in 0 .. BankSize - 1 /\ turn \in Int
      BY <1>1, <2>2, <2>4, <2>8
    <3>2. y \in Int /\ turn \in Int /\ BankSize \in Nat \ {0}
      BY <1>1, <3>1
    <3>3. (turn * BankSize + y) \div BankSize = turn /\ (turn * BankSize + y) % BankSize = y
      BY <3>1, <3>2, Quotients
    <3>4. turn * BankSize + y \in Int
      BY <3>2
    <3> QED
      BY <3>3, <3>4
  <2>10. Source(reg, width, g) = a
    BY <2>3, <2>5, <2>9
  <2> HIDE DEF a
  <2>11. turn % banks = turn
    BY <1>1, <2>2, Small
  <2>12. 0 \div scale = 0 /\ a - 0 = a
    BY <1>1, <2>9
  <2>13. GroupOf(reg, width, a) = (above * banks + turn) * width + x + 0
    <3>1. ((a - 0) % BankSize) \div scale = p
      BY <2>8, <2>9, <2>12
    <3>2. (a \div BankSize) % banks = turn
      BY <2>9, <2>11
    <3> QED
      BY <2>6, <2>7, <2>12, <3>1, <3>2
  <2>14. (above * banks + turn) * width + x = g
    BY <2>1, <2>2
  <2> QED
    BY <1>2, <2>10, <2>13, <2>14
<1> QED
  BY <1>1, <1>3, <1>4

\* What is marked stays enclosed, and a mark is enclosed with it.
LEMMA HullEncloses ==
    ASSUME NEW S \in SUBSET Groups
    PROVE  Hull(S) \subseteq Groups /\ S \subseteq Hull(S)
<1>1. Groups \subseteq Int
  BY SizeAssumption DEF Groups
<1>2. ASSUME NEW g \in S PROVE g \in Hull(S)
  BY <1>1, <1>2 DEF Hull
<1> QED
  BY <1>2 DEF Hull

LEMMA ReplottedCovers ==
    ASSUME diff_plot \subseteq Groups
    PROVE  diff_plot \subseteq Replotted /\ Replotted \subseteq Groups
BY DEF Replotted

\* Without banks a group's address depends on nothing but the scale.
LEMMA Unbanked ==
    ASSUME VgaTypes, NEW reg \in Registers, NEW width, reg.banks = r.banks, reg.scale = r.scale,
           ~ r.banks > 1
    PROVE  Moved(reg, width) = {}
<1>1. r.banks \in Banks
  BY DEF VgaTypes, Registers
<1>2. r.banks \in Nat \ {0}
  BY <1>1, RegisterAssumption
<1>3. r.banks = 1
  BY <1>2
<1> QED
  BY <1>3 DEF Moved, Source


LEMMA MarkInitInv == VgaInit => MarkInv
<1> SUFFICES ASSUME VgaInit PROVE MarkInv
  OBVIOUS
<1>1. VgaTypes /\ WidthSet /\ ~ svga_enabled /\ ~ Shows(graphical_mode, svga_enabled)
  BY LayersInitInv, Zenon DEF LayersInv, VgaInit, Shows
<1>2. MarkTypes /\ stale = {}
  BY DEF VgaInit, MarkTypes
<1> QED
  BY <1>1, <1>2 DEF MarkInv, Marked

\* What a step makes wrong and the code does not mark is in unmarked, what is marked stays.
LEMMA StaysMarked ==
    ASSUME MarkTypes, Marked, MarkTypes', NEW wrong \in SUBSET Groups, stale' = stale \cup wrong,
           unmarked \subseteq unmarked', diff_plot \subseteq diff_plot', diff_addr \subseteq diff_addr',
           wrong \subseteq unmarked' \cup (diff_plot' \cap diff_addr')
    PROVE  stale' \subseteq unmarked' \cup (diff_plot' \cap diff_addr')
BY DEF Marked

\* A replot of everything marks everything.
LEMMA CompleteReplotDoes ==
    ASSUME MarkTypes, NEW graphical, CompleteReplot(graphical)
    PROVE  /\ diff_plot' \subseteq Groups /\ diff_addr' \subseteq Groups
           /\ diff_plot \subseteq diff_plot' /\ diff_addr \subseteq diff_addr'
           /\ Shows(graphical, svga_enabled) => diff_plot' = Groups /\ diff_addr' = Groups
BY DEF CompleteReplot, MarkTypes, diffs

LEMMA CompleteRedrawDoes ==
    ASSUME MarkTypes, NEW graphical, CompleteRedraw(graphical)
    PROVE  /\ diff_plot' = diff_plot /\ diff_addr' \subseteq Groups /\ diff_addr \subseteq diff_addr'
           /\ Shows(graphical, svga_enabled) => diff_addr' = Groups
BY DEF CompleteRedraw, MarkTypes

LEMMA SpoilDoes ==
    ASSUME MarkTypes, NEW graphical, NEW wrong \in SUBSET Groups, Spoil(graphical, wrong)
    PROVE  /\ stale' = stale \cup wrong /\ unmarked \subseteq unmarked' /\ unmarked' \subseteq Groups
           /\ stale' \subseteq Groups
           /\ ~ Shows(graphical, svga_enabled) => wrong \subseteq unmarked'
BY DEF Spoil, MarkTypes

LEMMA MovedGroups ==
    ASSUME NEW reg, NEW width
    PROVE  Moved(reg, width) \in SUBSET Groups
BY DEF Moved

\* The writes of CrtcMode, OffsetRegister and StartAddress: replot, or nothing has moved.
LEMMA MovingStep ==
    ASSUME MarkTypes, Marked, UNCHANGED <<graphical_mode, svga_enabled, unpainted>>,
           NEW wrong \in SUBSET Groups, Spoil(graphical_mode, wrong),
           CompleteReplot(graphical_mode) \/ (UNCHANGED diffs /\ wrong = {})
    PROVE  MarkTypes' /\ Marked'
<1>1. /\ diff_plot' \subseteq Groups /\ diff_addr' \subseteq Groups
      /\ diff_plot \subseteq diff_plot' /\ diff_addr \subseteq diff_addr'
      /\ (Shows(graphical_mode, svga_enabled) => diff_plot' = Groups /\ diff_addr' = Groups) \/ wrong = {}
  <2>1. CASE CompleteReplot(graphical_mode)
    BY <2>1, CompleteReplotDoes
  <2>2. CASE UNCHANGED diffs /\ wrong = {}
    BY <2>2 DEF diffs, MarkTypes
  <2> QED
    BY <2>1, <2>2
<1>2. /\ stale' = stale \cup wrong /\ unmarked \subseteq unmarked' /\ unmarked' \subseteq Groups
      /\ stale' \subseteq Groups /\ (~ Shows(graphical_mode, svga_enabled) => wrong \subseteq unmarked')
  BY SpoilDoes
<1>3. MarkTypes'
  BY <1>1, <1>2 DEF MarkTypes
<1>4. wrong \subseteq unmarked' \cup (diff_plot' \cap diff_addr')
  BY <1>1, <1>2
<1>5. stale' \subseteq unmarked' \cup (diff_plot' \cap diff_addr')
  BY <1>1, <1>2, <1>3, <1>4, StaysMarked
<1>6. svga_enabled' => unmarked' = Groups
  BY <1>2 DEF Marked
<1>7. Shows(graphical_mode', svga_enabled') => unpainted' \subseteq unmarked' \cup diff_addr'
  BY <1>1, <1>2 DEF Marked
<1> QED
  BY <1>3, <1>5, <1>6, <1>7 DEF Marked

\* A write to memory marks the groups that come from the address.
LEMMA WriteStep ==
    ASSUME MarkInv, NEW a \in Addresses, Write(a)
    PROVE  MarkTypes' /\ Marked'
<1> DEFINE wrong == From(r, virtual_width, a)
           out == {g \in wrong : ~ InBank(r, virtual_width, g)}
<1>1. wrong \in SUBSET Groups /\ out \in SUBSET Groups
  BY DEF From
<1>2. UNCHANGED <<graphical_mode, svga_enabled, unpainted>> /\ ~ svga_enabled
  BY Zenon DEF Write, mode
<1>3. CASE ~ graphical_mode
  <2>1. Lose(wrong) /\ UNCHANGED diffs
    BY <1>3, Zenon DEF Write
  <2>2. /\ stale' = stale \cup wrong /\ unmarked' = unmarked \cup wrong
        /\ diff_plot' = diff_plot /\ diff_addr' = diff_addr /\ unpainted' = unpainted
    BY <1>2, <2>1, Zenon DEF Lose, diffs
  <2>3. MarkTypes'
    BY <1>1, <2>2 DEF MarkTypes, MarkInv
  <2>4. stale' \subseteq unmarked' \cup (diff_plot' \cap diff_addr')
    BY <2>2 DEF Marked, MarkInv
  <2>5. ~ svga_enabled' /\ ~ Shows(graphical_mode', svga_enabled')
    BY <1>2, <1>3, Zenon DEF Shows
  <2> QED
    BY <2>3, <2>4, <2>5, Zenon DEF Marked
<1>4. CASE graphical_mode
  <2> DEFINE h == GroupOf(r, virtual_width, a)
             marked == {h, IF r.pel THEN h + 1 ELSE h} \cap Groups
  <2>1. /\ PartialReplot(h) /\ stale' = stale \cup wrong /\ unmarked' = unmarked \cup out
        /\ (r.banks > 1 => r.start = 0)
    BY <1>4 DEF Write
  <2>2. diff_plot' = Hull(diff_plot \cup marked) /\ diff_addr' = Hull(diff_addr \cup marked)
    BY <2>1 DEF PartialReplot
  <2>3. /\ diff_plot \cup marked \in SUBSET Groups
        /\ diff_addr \cup marked \in SUBSET Groups
    BY DEF MarkInv, MarkTypes
  <2>4. /\ diff_plot' \subseteq Groups /\ diff_addr' \subseteq Groups
        /\ diff_plot \cup marked \subseteq diff_plot' /\ diff_addr \cup marked \subseteq diff_addr'
    BY <2>2, <2>3, HullEncloses
  <2>5. r \in Registers /\ virtual_width \in Nat \ {0}
    BY <1>4 DEF MarkInv, VgaTypes, WidthSet
  <2>6. ASSUME NEW g \in wrong, g \notin out PROVE g \in marked
    <3>1. g \in Groups /\ Source(r, virtual_width, g) = a /\ InBank(r, virtual_width, g)
      BY <2>6 DEF From
    <3>2. h = g
      BY <2>1, <2>5, <3>1, GroupOfSource
    <3> QED
      BY <3>1, <3>2
  <2>7. wrong \subseteq unmarked' \cup (diff_plot' \cap diff_addr')
    <3>1. ASSUME NEW g \in wrong PROVE g \in unmarked' \/ g \in marked
      BY <2>1, <2>6
    <3> HIDE DEF wrong, out, marked
    <3> QED
      BY <2>4, <3>1
  <2> HIDE DEF wrong, out, marked
  <2>8. MarkTypes'
    BY <1>1, <1>2, <2>1, <2>4 DEF MarkInv, MarkTypes
  <2>9. stale' \subseteq unmarked' \cup (diff_plot' \cap diff_addr')
    BY <1>1, <2>1, <2>4, <2>7 DEF MarkInv, Marked
  <2>10. ~ svga_enabled' /\ (Shows(graphical_mode', svga_enabled') => unpainted' \subseteq unmarked' \cup diff_addr')
    BY <1>2, <2>1, <2>4 DEF MarkInv, Marked
  <2> QED
    BY <2>8, <2>9, <2>10 DEF Marked
<1> QED
  BY <1>3, <1>4


LEMMA MarkStep ==
    ASSUME MarkInv, LayersInv, [VgaNext]_vga_vars
    PROVE  MarkInv'
<1>1. VgaTypes' /\ WidthSet'
  BY LayersStep DEF LayersInv
<1>2. SUFFICES MarkTypes' /\ Marked'
  BY <1>1, Zenon DEF MarkInv
<1>3. MarkTypes /\ Marked
  BY Zenon DEF MarkInv
<1>4. CASE AttributeMode
  <2>1. PICK graphics \in BOOLEAN, pel \in BOOLEAN :
            LET reg == [r EXCEPT !.graphics = graphics, !.pel = pel]
                gm == IF svga_enabled THEN graphical_mode ELSE graphics
            IN /\ graphical_mode' = gm
               /\ IF pel # r.pel /\ Shows(gm, svga_enabled) THEN CompleteReplot(gm) ELSE CompleteRedraw(gm)
               /\ IF pel # r.pel THEN Spoil(gm, Groups) ELSE Lose(Moved(reg, virtual_width'))
               /\ unpainted' = Groups
               /\ svga_enabled' = svga_enabled
    BY <1>4 DEF AttributeMode
  <2> DEFINE reg == [r EXCEPT !.graphics = graphics, !.pel = pel]
             gm == IF svga_enabled THEN graphical_mode ELSE graphics
             wrong == IF pel # r.pel THEN Groups ELSE Moved(reg, virtual_width')
  <2>2. graphical_mode' = gm /\ svga_enabled' = svga_enabled /\ unpainted' = Groups
    BY <2>1, Zenon
  <2>3. wrong \in SUBSET Groups
    BY MovedGroups
  <2>4. /\ diff_plot' \subseteq Groups /\ diff_addr' \subseteq Groups
        /\ diff_plot \subseteq diff_plot' /\ diff_addr \subseteq diff_addr'
        /\ Shows(gm, svga_enabled) => diff_addr' = Groups /\ (pel # r.pel => diff_plot' = Groups)
    <3>1. CASE pel # r.pel /\ Shows(gm, svga_enabled)
      <4>1. CompleteReplot(gm)
        BY <2>1, <3>1, Zenon
      <4> QED
        BY <1>3, <4>1, CompleteReplotDoes
    <3>2. CASE ~ (pel # r.pel /\ Shows(gm, svga_enabled))
      <4>1. CompleteRedraw(gm)
        BY <2>1, <3>2, Zenon
      <4>2. /\ diff_plot' = diff_plot /\ diff_addr' \subseteq Groups /\ diff_addr \subseteq diff_addr'
            /\ Shows(gm, svga_enabled) => diff_addr' = Groups
        BY <1>3, <4>1, CompleteRedrawDoes
      <4> QED
        BY <1>3, <3>2, <4>2 DEF MarkTypes
    <3> QED
      BY <3>1, <3>2
  <2>5. /\ stale' = stale \cup wrong /\ unmarked \subseteq unmarked' /\ unmarked' \subseteq Groups
        /\ stale' \subseteq Groups
        /\ wrong \subseteq unmarked' \/ (pel # r.pel /\ Shows(gm, svga_enabled))
    <3>1. CASE pel # r.pel
      <4>1. Spoil(gm, Groups) /\ wrong = Groups
        BY <2>1, <3>1, Zenon
      <4> QED
        BY <1>3, <3>1, <4>1, SpoilDoes
    <3>2. CASE ~ pel # r.pel
      <4>1. Lose(wrong)
        BY <2>1, <3>2, Zenon
      <4> QED
        BY <1>3, <2>3, <4>1 DEF Lose, MarkTypes
    <3> QED
      BY <3>1, <3>2
  <2> HIDE DEF wrong, gm, reg
  <2>6. MarkTypes'
    BY <2>2, <2>4, <2>5 DEF MarkTypes
  <2>7. wrong \subseteq unmarked' \cup (diff_plot' \cap diff_addr')
    BY <2>3, <2>4, <2>5
  <2>8. stale' \subseteq unmarked' \cup (diff_plot' \cap diff_addr')
    BY <1>3, <2>3, <2>4, <2>5, <2>6, <2>7, StaysMarked
  <2>9. svga_enabled' => unmarked' = Groups
    BY <1>3, <2>2, <2>5 DEF Marked
  <2>10. Shows(graphical_mode', svga_enabled') => unpainted' \subseteq unmarked' \cup diff_addr'
    BY <2>2, <2>4
  <2> QED
    BY <2>6, <2>8, <2>9, <2>10 DEF Marked
<1>5. CASE InternalPalette \/ ColorRegisters \/ Palette
  <2>1. CompleteRedraw(graphical_mode) /\ unpainted' = Groups /\ UNCHANGED <<graphical_mode, svga_enabled, stale, unmarked>>
    BY <1>5 DEF InternalPalette, ColorRegisters, Palette, Recolored, mode
  <2>2. /\ diff_plot' = diff_plot /\ diff_addr' \subseteq Groups /\ diff_addr \subseteq diff_addr'
        /\ Shows(graphical_mode, svga_enabled) => diff_addr' = Groups
    BY <1>3, <2>1, CompleteRedrawDoes
  <2>3. MarkTypes'
    BY <1>3, <2>1, <2>2 DEF MarkTypes
  <2> QED
    BY <1>3, <2>1, <2>2, <2>3 DEF Marked
<1>6. CASE ScreenOff \/ UNCHANGED vga_vars
  <2>1. UNCHANGED <<graphical_mode, svga_enabled, stale, unpainted, unmarked, diff_plot, diff_addr>>
    BY <1>6 DEF ScreenOff, mode, caches, diffs, vga_vars
  <2> QED
    BY <1>3, <2>1 DEF Marked, MarkTypes
<1>7. CASE ShiftMode
  <2>1. /\ UNCHANGED <<graphical_mode, svga_enabled, unpainted>> /\ Spoil(graphical_mode, Groups)
        /\ CompleteReplot(graphical_mode) /\ Groups \in SUBSET Groups
    BY <1>7 DEF ShiftMode, mode
  <2> QED
    BY <1>3, <2>1, MovingStep
<1>8. CASE CrtcMode \/ OffsetRegister \/ StartAddress
  <2>1. PICK reg \in Registers :
            /\ Spoil(graphical_mode, Moved(reg, virtual_width'))
            /\ CompleteReplot(graphical_mode)
               \/ (UNCHANGED diffs /\ ~ r.banks > 1 /\ reg.banks = r.banks /\ reg.scale = r.scale)
    <3>1. r \in Registers
      BY DEF MarkInv, VgaTypes
    <3>2. CASE CrtcMode
      <4>1. PICK scale \in Scales, banks \in Banks :
                /\ Spoil(graphical_mode, Moved([r EXCEPT !.scale = scale, !.banks = banks], virtual_width'))
                /\ CompleteReplot(graphical_mode)
        BY <3>2 DEF CrtcMode
      <4>2. [r EXCEPT !.scale = scale, !.banks = banks] \in Registers
        BY <3>1 DEF Registers
      <4> QED
        BY <4>1, <4>2
    <3>3. CASE OffsetRegister
      <4>1. PICK offset \in Offsets :
                /\ Spoil(graphical_mode, Moved([r EXCEPT !.offset = offset], virtual_width'))
                /\ IF r.banks > 1 THEN CompleteReplot(graphical_mode) ELSE UNCHANGED diffs
        BY <3>3 DEF OffsetRegister
      <4> DEFINE reg == [r EXCEPT !.offset = offset]
      <4>2. reg \in Registers /\ reg.banks = r.banks /\ reg.scale = r.scale
        BY <3>1 DEF Registers
      <4> HIDE DEF reg
      <4>3. CompleteReplot(graphical_mode) \/ (UNCHANGED diffs /\ ~ r.banks > 1)
        BY <4>1
      <4> QED
        BY <4>1, <4>2, <4>3 DEF reg
    <3>4. CASE StartAddress
      <4>1. PICK start \in Starts :
                /\ Spoil(graphical_mode, Moved([r EXCEPT !.start = start], virtual_width'))
                /\ IF r.banks > 1 THEN CompleteReplot(graphical_mode) ELSE UNCHANGED diffs
        BY <3>4 DEF StartAddress
      <4> DEFINE reg == [r EXCEPT !.start = start]
      <4>2. reg \in Registers /\ reg.banks = r.banks /\ reg.scale = r.scale
        BY <3>1 DEF Registers
      <4> HIDE DEF reg
      <4>3. CompleteReplot(graphical_mode) \/ (UNCHANGED diffs /\ ~ r.banks > 1)
        BY <4>1
      <4> QED
        BY <4>1, <4>2, <4>3 DEF reg
    <3> QED
      BY <1>8, <3>2, <3>3, <3>4
  <2> DEFINE wrong == Moved(reg, virtual_width')
  <2>2. UNCHANGED <<graphical_mode, svga_enabled, unpainted>>
    BY <1>8 DEF CrtcMode, OffsetRegister, StartAddress, mode
  <2>3. wrong \in SUBSET Groups
    BY MovedGroups
  <2>4. CompleteReplot(graphical_mode) \/ (UNCHANGED diffs /\ wrong = {})
    <3>1. VgaTypes
      BY DEF MarkInv
    <3> QED
      BY <2>1, <3>1, Unbanked
  <2> QED
    BY <1>3, <2>1, <2>2, <2>3, <2>4, MovingStep
<1>9. CASE SizeRegister
  <2> DEFINE wrong == Moved(r, virtual_width')
  <2>1. /\ UNCHANGED <<graphical_mode, svga_enabled, unpainted, diff_plot, diff_addr>>
        /\ stale' = stale \cup wrong /\ unmarked' = unmarked \cup wrong
    BY <1>9 DEF SizeRegister, Lose, mode, diffs
  <2>2. wrong \in SUBSET Groups
    BY MovedGroups
  <2> HIDE DEF wrong
  <2>3. MarkTypes'
    BY <1>3, <2>1, <2>2 DEF MarkTypes
  <2> QED
    BY <1>3, <2>1, <2>2, <2>3 DEF Marked
<1>10. CASE SvgaEnable
  <2> DEFINE wrong == Moved(r, SvgaWidth)
  <2>1. /\ svga_enabled' = TRUE /\ unmarked' = Groups /\ unpainted' = Groups
        /\ stale' = stale \cup wrong /\ UNCHANGED <<diff_plot, diff_addr>>
    BY <1>10 DEF SvgaEnable, diffs
  <2>2. wrong \in SUBSET Groups
    BY MovedGroups
  <2> HIDE DEF wrong
  <2>3. MarkTypes'
    BY <1>3, <2>1, <2>2 DEF MarkTypes
  <2> QED
    BY <1>3, <2>1, <2>2, <2>3 DEF Marked, MarkTypes
<1>11. CASE SvgaDisable
  <2>1. /\ svga_enabled /\ ~ svga_enabled'
        /\ UNCHANGED <<stale, unpainted, unmarked, diff_plot, diff_addr>>
    BY <1>11, Zenon DEF SvgaDisable, caches, diffs
  <2> QED
    BY <1>3, <2>1 DEF Marked, MarkTypes
<1>12. CASE \E a \in Addresses : Write(a)
  BY <1>12, WriteStep
<1>13. CASE ScreenFillBuffer
  <2>1. UNCHANGED <<graphical_mode, svga_enabled>>
    BY <1>13 DEF ScreenFillBuffer, mode
  <2>2. CASE ~ graphical_mode
    <3>1. UNCHANGED <<stale, unpainted, unmarked, diff_plot, diff_addr>>
      BY <1>13, <2>2, Zenon DEF ScreenFillBuffer, caches, diffs
    <3> QED
      BY <1>3, <2>1, <3>1 DEF Marked, MarkTypes
  <2>3. CASE graphical_mode /\ svga_enabled
    <3>1. UNCHANGED <<stale, unpainted, unmarked>> /\ diff_plot' = {} /\ diff_addr' = {}
      BY <1>13, <2>3, Zenon DEF ScreenFillBuffer
    <3> QED
      BY <1>3, <2>1, <2>3, <3>1 DEF Marked, MarkTypes
  <2>4. CASE graphical_mode /\ ~ svga_enabled
    <3>1. /\ diff_plot' = {} /\ diff_addr' = {} /\ stale' = stale \ Replotted
          /\ unpainted' = (unpainted \cup (stale \cap Replotted)) \ diff_addr
          /\ unmarked' = unmarked \ (Replotted \cap diff_addr)
      BY <1>13, <2>4, Zenon DEF ScreenFillBuffer
    <3>2. diff_plot \subseteq Replotted /\ Replotted \subseteq Groups
      BY <1>3, ReplottedCovers DEF MarkTypes
    <3>3. Shows(graphical_mode, svga_enabled)
      BY <2>4 DEF Shows
    <3>4. MarkTypes'
      BY <1>3, <3>1, <3>2 DEF MarkTypes
    <3>5. ~ svga_enabled'
      BY <2>1, <2>4
    <3>6. stale' \subseteq unmarked' /\ unpainted' \subseteq unmarked'
      BY <1>3, <3>1, <3>2, <3>3 DEF Marked
    <3> QED
      BY <3>1, <3>4, <3>5, <3>6 DEF Marked
  <2> QED
    BY <2>2, <2>3, <2>4
<1>14. CASE Reload
  <2> DEFINE shown == Shows(graphical_mode, svga_enabled)
             width == IF shown THEN r.offset ELSE IF svga_enabled THEN SvgaWidth ELSE 0
             wrong == Moved(r, width)
  <2>1. /\ diff_plot' = IF shown THEN Groups ELSE {}
        /\ diff_addr' = IF shown THEN Groups ELSE {}
        /\ stale' = stale \cup wrong /\ unpainted' = Groups
        /\ unmarked' = IF shown THEN unmarked ELSE unmarked \cup stale \cup wrong
        /\ UNCHANGED <<graphical_mode, svga_enabled>>
    BY <1>14 DEF Reload, mode
  <2>2. wrong \in SUBSET Groups
    BY MovedGroups
  <2> HIDE DEF wrong
  <2>3. MarkTypes'
    BY <1>3, <2>1, <2>2 DEF MarkTypes
  <2>4. shown = Shows(graphical_mode', svga_enabled')
    BY <2>1
  <2> HIDE DEF shown
  <2>5. svga_enabled' => unmarked' = Groups
    BY <1>3, <2>1, <2>3 DEF Marked, MarkTypes
  <2>6. stale' \subseteq unmarked' \cup (diff_plot' \cap diff_addr')
    <3>1. CASE shown
      BY <2>1, <2>3, <3>1 DEF MarkTypes
    <3>2. CASE ~ shown
      BY <2>1, <3>2
    <3> QED
      BY <3>1, <3>2
  <2>7. shown => unpainted' \subseteq unmarked' \cup diff_addr'
    BY <2>1
  <2> QED
    BY <2>3, <2>4, <2>5, <2>6, <2>7 DEF Marked
<1> QED
  BY <1>4, <1>5, <1>6, <1>7, <1>8, <1>9, <1>10, <1>11, <1>12, <1>13, <1>14 DEF VgaNext

\* The screen is filled from what was marked, and nothing else was wrong.
LEMMA FillStep ==
    ASSUME MarkInv, ScreenFillBuffer, Shows(graphical_mode, svga_enabled)
    PROVE  stale' \cup unpainted' \subseteq unmarked'
<1>1. graphical_mode /\ ~ svga_enabled
  BY Zenon DEF Shows
<1>2. /\ stale' = stale \ Replotted
      /\ unpainted' = (unpainted \cup (stale \cap Replotted)) \ diff_addr
      /\ unmarked' = unmarked \ (Replotted \cap diff_addr)
  BY <1>1, Zenon DEF ScreenFillBuffer
<1>3. diff_plot \subseteq Replotted
  BY ReplottedCovers DEF MarkInv, MarkTypes
<1> QED
  BY <1>2, <1>3 DEF MarkInv, Marked

-----------------------------------------------------------------------------
(* The ring of the network card.  Until curpg has once caught up with the  *)
(* boundary, the unread frames lie one behind the other from the driver's  *)
(* page to curpg, with at least one page more than they need; the driver   *)
(* is at the place in the first of them that its registers say.            *)

\* How many pages one comes to a page after another.
Ahead(p, q) == IF q >= p THEN q - p ELSE q - p + RingSize

PageBefore(p) == IF p = PStart THEN PStop - 1 ELSE p - 1

\* Where the frame after f begins, or will begin.
NextStart(f) == IF f < Len(accepted) THEN accepted[f + 1].page ELSE curpg

Used == Ahead(page, curpg)
Offset(f) == Ahead(page, accepted[f].page)
PagesOf(f) == Needed(accepted[f].len)

NetTypes ==
    /\ memory = [c \in Cells |-> memory[c]]
    /\ curpg \in Int /\ delivered \in Int
    /\ accepted \in Seq([page : Int, len : Lengths])

LineFollows == irq_line = (ne2k_isr \cap imr # {})

\* Until the driver has set the card up, nothing is received.
BoundaryBehind ==
    \/ boundary = PageBefore(page)
    \/ ~ rx /\ page = curpg /\ delivered = Len(accepted) /\ boundary \in Pages

Positions ==
    /\ page \in Pages /\ curpg \in Pages /\ delivered \in 0 .. Len(accepted)
    /\ BoundaryBehind
    /\ Used + 2 <= RingSize
    /\ page = NextStart(delivered)

Chain ==
    \A f \in Unread :
        /\ accepted[f].page \in Pages
        /\ PageAfter(accepted[f].page, PagesOf(f)) = NextStart(f)
        /\ Offset(f) + PagesOf(f) <= Used
        /\ \A g \in Unread : f < g => Offset(f) + PagesOf(f) <= Offset(g)

DriverPlace ==
    /\ pc \in {"header", "parsed", "body"} => delivered < Len(accepted)
    /\ pc = "header" => rsar = page * PageSize /\ rcnt = 1
    /\ pc \in {"parsed", "body"} => count = accepted[delivered + 1].len
    /\ pc = "body" => rcnt \in 0 .. count /\ (rcnt > 0 => rsar = CellOf(page, count - rcnt + 1))
    /\ pc = "send" => rcnt \in 0 .. 1 /\ (rcnt = 1 => rsar = 0)

RingInv == ~ garbled /\ Positions /\ Chain /\ UnreadKept /\ DriverPlace

Announced ==
    Unread # {} /\ (pc \in {"idle", "send"} \/ (pc = "seen" /\ "RX" \notin seen)) => "RX" \in ne2k_isr

NetInv == NetTypes /\ LineFollows /\ (~ full => RingInv /\ Announced)

\* The sizes of the ring.
LEMMA RingSizes ==
    /\ PStart \in Nat \ {0} /\ PStop \in Nat /\ RingSize \in Nat /\ RingSize >= 2 /\ PStop = PStart + RingSize
    /\ PageSize \in Nat /\ PageSize >= 2
BY RingAssumption DEF RingSize

LEMMA AheadIs ==
    ASSUME NEW p \in Pages, NEW q \in Pages
    PROVE  Ahead(p, q) \in 0 .. RingSize - 1 /\ Ahead(p, p) = 0 /\ (Ahead(p, q) = 0 => p = q)
BY RingSizes DEF Ahead, Pages

\* Going on from q takes one further from p, up to a whole turn.
LEMMA AheadGrows ==
    ASSUME NEW p \in Pages, NEW q \in Pages, NEW n \in Nat, Ahead(p, q) + n < RingSize
    PROVE  PageAfter(q, n) \in Pages /\ Ahead(p, PageAfter(q, n)) = Ahead(p, q) + n
BY RingSizes DEF Ahead, Pages, PageAfter

LEMMA AheadShrinks ==
    ASSUME NEW p \in Pages, NEW q \in Pages, NEW n \in Nat, n <= Ahead(p, q)
    PROVE  PageAfter(p, n) \in Pages /\ Ahead(PageAfter(p, n), q) = Ahead(p, q) - n
BY RingSizes DEF Ahead, Pages, PageAfter

\* The card counts from curpg to the boundary, which is one page behind the driver's.
LEMMA AvailableIs ==
    ASSUME page \in Pages, curpg \in Pages, Used + 2 <= RingSize, boundary = PageBefore(page)
    PROVE  Available = RingSize - 1 - Used
BY RingSizes DEF Used, Ahead, Pages, PageBefore, Available

-----------------------------------------------------------------------------
(* The cells of the ring.                                                  *)

\* How many cells one comes to a cell after the first of a page.
CellsAhead(p, c) == IF c >= p * PageSize THEN c - p * PageSize ELSE c - p * PageSize + RingSize * PageSize

LEMMA Multiples ==
    ASSUME NEW a \in Int, NEW b \in Int, a <= b
    PROVE  /\ a * PageSize \in Int /\ b * PageSize \in Int /\ a * PageSize <= b * PageSize
           /\ (a + b) * PageSize = a * PageSize + b * PageSize /\ (b - a) * PageSize = b * PageSize - a * PageSize
<1>1. PageSize \in Nat
  BY RingSizes
<1>2. a * PageSize \in Int /\ b * PageSize \in Int /\ (b - a) * PageSize = b * PageSize - a * PageSize
  BY <1>1
<1>3. (a + b) * PageSize = a * PageSize + b * PageSize
  BY <1>1
<1>4. (b - a) * PageSize \in Nat
  <2>1. b - a \in Nat
    OBVIOUS
  <2> QED
    BY <1>1, <2>1, Product
<1> QED
  BY <1>2, <1>3, <1>4

\* Where the pages of the ring are among the cells.
LEMMA PageCells ==
    ASSUME NEW p \in Pages
    PROVE  /\ p * PageSize \in Nat /\ PStart * PageSize \in Nat /\ PStop * PageSize \in Nat
           /\ RingSize * PageSize \in Nat
           /\ 1 <= PStart * PageSize /\ PStart * PageSize <= p * PageSize
           /\ p * PageSize + PageSize <= PStop * PageSize
           /\ PStop * PageSize = PStart * PageSize + RingSize * PageSize
<1>1. /\ p \in Nat /\ PStart \in Nat /\ PStop \in Nat /\ RingSize \in Nat /\ PageSize \in Nat
      /\ 1 <= PStart /\ PStart <= p /\ p + 1 <= PStop /\ PStop = PStart + RingSize
  BY RingSizes DEF Pages
<1>2. PStart * PageSize <= p * PageSize
  BY <1>1, Multiples
<1>3. (p + 1) * PageSize <= PStop * PageSize /\ (p + 1) * PageSize = p * PageSize + PageSize
  <2>1. (p + 1) * PageSize <= PStop * PageSize
    BY <1>1, Multiples
  <2> QED
    BY <1>1, <2>1
<1>4. 1 <= PStart * PageSize
  <2>1. 1 * PageSize <= PStart * PageSize /\ 1 * PageSize = PageSize /\ PageSize >= 2
    BY <1>1, RingSizes, Multiples
  <2> QED
    BY <1>1, <2>1
<1>5. /\ p * PageSize \in Nat /\ PStart * PageSize \in Nat /\ PStop * PageSize \in Nat
      /\ RingSize * PageSize \in Nat
  BY <1>1, Product
<1>6. PStop * PageSize = PStart * PageSize + RingSize * PageSize
  BY <1>1
<1> QED
  BY <1>2, <1>3, <1>4, <1>5, <1>6

\* The cells of a frame follow one another around the ring.
LEMMA CellsAheadOf ==
    ASSUME NEW p \in Pages, NEW q \in Pages, NEW k \in Nat,
           Ahead(p, q) * PageSize + k < RingSize * PageSize
    PROVE  /\ CellOf(q, k) \in Cells /\ CellOf(q, k) >= 1
           /\ CellsAhead(p, CellOf(q, k)) = Ahead(p, q) * PageSize + k
<1> DEFINE pp == p * PageSize
           qq == q * PageSize
           first == PStart * PageSize
           end == PStop * PageSize
           turn == RingSize * PageSize
           ahead == Ahead(p, q) * PageSize
<1>1. /\ pp \in Nat /\ qq \in Nat /\ first \in Nat /\ end \in Nat /\ turn \in Nat
      /\ 1 <= first /\ first <= pp /\ first <= qq /\ end = first + turn
      /\ pp + PageSize <= end /\ qq + PageSize <= end
  BY PageCells
<1>2. PageSize \in Nat /\ PageSize >= 2
  BY RingSizes
<1>3. ahead = IF q >= p THEN qq - pp ELSE qq - pp + turn
  <2>1. p \in Int /\ q \in Int /\ RingSize \in Int
    BY RingSizes DEF Pages
  <2>2. CASE q >= p
    <3>1. Ahead(p, q) = q - p
      BY <2>2 DEF Ahead
    <3>2. (q - p) * PageSize = qq - pp
      BY <1>2, <2>1
    <3> QED
      BY <2>2, <3>1, <3>2
  <2>3. CASE ~ q >= p
    <3>1. Ahead(p, q) = q - p + RingSize
      BY <2>3 DEF Ahead
    <3>2. (q - p + RingSize) * PageSize = qq - pp + turn
      BY <1>2, <2>1
    <3> QED
      BY <2>3, <3>1, <3>2
  <2> QED
    BY <2>2, <2>3
<1>4. (q >= p => qq >= pp) /\ (~ q >= p => qq < pp)
  <2>1. p \in Int /\ q \in Int
    BY RingSizes DEF Pages
  <2>2. CASE q >= p
    BY <2>1, <2>2, Multiples
  <2>3. CASE ~ q >= p
    <3>1. q + 1 <= p /\ q + 1 \in Int
      BY <2>1, <2>3
    <3>2. (q + 1) * PageSize <= pp
      BY <2>1, <3>1, Multiples
    <3>3. (q + 1) * PageSize = qq + PageSize
      BY <1>2, <2>1
    <3> QED
      BY <1>1, <1>2, <2>3, <3>2, <3>3
  <2> QED
    BY <2>2, <2>3
<1>5. ahead + k < turn
  OBVIOUS
<1>6. CellOf(q, k) = IF qq + k >= end THEN (qq + k) - turn ELSE qq + k
  BY <1>1 DEF CellOf
<1>7. \A c : c \in Cells <=> c \in 0 .. end - 1
  BY DEF Cells
<1>8. \A c : CellsAhead(p, c) = IF c >= pp THEN c - pp ELSE c - pp + turn
  BY DEF CellsAhead
<1> HIDE DEF pp, qq, first, end, turn, ahead
<1>9. /\ CellOf(q, k) \in 0 .. end - 1 /\ CellOf(q, k) >= 1
      /\ CellsAhead(p, CellOf(q, k)) = ahead + k
  <2>1. CASE q >= p
    BY <1>1, <1>2, <1>3, <1>4, <1>5, <1>6, <1>8, <2>1
  <2>2. CASE ~ q >= p
    BY <1>1, <1>2, <1>3, <1>4, <1>5, <1>6, <1>8, <2>2
  <2> QED
    BY <2>1, <2>2
<1> QED
  BY <1>7, <1>9 DEF ahead

\* A frame fits the pages it takes.
LEMMA FrameFits ==
    ASSUME NEW len \in Lengths
    PROVE  Needed(len) \in Nat /\ Needed(len) >= 1 /\ len \in Nat \ {0} /\ len < Needed(len) * PageSize
<1>1. len \in Nat \ {0} /\ PageSize \in Nat \ {0}
  BY RingAssumption
<1> DEFINE d == (len + 1) \div PageSize
           m == (len + 1) % PageSize
<1>2. d \in Nat /\ m \in 0 .. PageSize - 1 /\ d * PageSize + m = len + 1
  <2>1. len + 1 \in Nat
    BY <1>1
  <2> QED
    BY <1>1, <2>1, RowAndPlace
<1>3. Needed(len) = 1 + d
  BY DEF Needed
<1> HIDE DEF d, m
<1>4. (1 + d) * PageSize = PageSize + d * PageSize /\ d * PageSize \in Nat
  BY <1>1, <1>2
<1> QED
  BY <1>1, <1>2, <1>3, <1>4

\* The data port goes to the next cell of the frame, around the end of the ring.
LEMMA NextCell ==
    ASSUME NEW p \in Pages, NEW k \in Nat, k + 1 < RingSize * PageSize, rsar = CellOf(p, k)
    PROVE  NextRsar = CellOf(p, k + 1)
<1> DEFINE pp == p * PageSize
           end == PStop * PageSize
           turn == RingSize * PageSize
           first == PStart * PageSize
<1>1. /\ pp \in Nat /\ first \in Nat /\ end \in Nat /\ turn \in Nat
      /\ 1 <= first /\ first <= pp /\ end = first + turn /\ pp + PageSize <= end
  BY PageCells
<1>2. PageSize \in Nat /\ PageSize >= 2
  BY RingSizes
<1>3. /\ rsar = IF pp + k >= end THEN (pp + k) - turn ELSE pp + k
      /\ CellOf(p, k + 1) = IF pp + (k + 1) >= end THEN (pp + (k + 1)) - turn ELSE pp + (k + 1)
  BY <1>1 DEF CellOf
<1>4. NextRsar = IF rsar + 1 >= end THEN rsar + 1 - turn ELSE rsar + 1
  BY DEF NextRsar
<1>5. k + 1 < turn
  OBVIOUS
<1> HIDE DEF pp, first, end, turn
<1> QED
  BY <1>1, <1>2, <1>3, <1>4, <1>5


\* What Written writes, with room for it on the ring: each cell holds what it is given, since
\* no two of them are the same, and no other cell changes.
LEMMA WrittenIs ==
    ASSUME NEW f, NEW q \in Pages, NEW len \in Lengths, len < RingSize * PageSize
    PROVE  /\ Written(f, q, len)[CellOf(q, 0)] = Header(PageAfter(q, Needed(len)), len)
           /\ \A k \in 1 .. len : Written(f, q, len)[CellOf(q, k)] = Data(f, k)
           /\ \A c \in Cells : (\A k \in 0 .. len : c # CellOf(q, k)) => Written(f, q, len)[c] = memory[c]
<1>1. len \in Nat \ {0}
  BY FrameFits
<1>2. ASSUME NEW k \in 0 .. len PROVE CellOf(q, k) \in Cells /\ CellsAhead(q, CellOf(q, k)) = k
  <2>1. k \in Nat /\ Ahead(q, q) = 0 /\ PageSize \in Nat /\ k < RingSize * PageSize
    BY <1>1, RingSizes, AheadIs, PageCells
  <2>2. Ahead(q, q) * PageSize = 0
    BY <2>1
  <2>3. Ahead(q, q) * PageSize + k = k
    BY <2>1, <2>2
  <2> QED
    BY <2>1, <2>3, CellsAheadOf
<1>3. \A j, k \in 0 .. len : CellOf(q, j) = CellOf(q, k) => j = k
  BY <1>2
<1>4. 0 \in 0 .. len /\ \A k \in 1 .. len : k \in 0 .. len /\ k # 0
  BY <1>1
<1>5. Written(f, q, len)[CellOf(q, 0)] = Header(PageAfter(q, Needed(len)), len)
  <2>1. CellOf(q, 0) \in Cells
    BY <1>2, <1>4
  <2> QED
    BY <2>1, Zenon DEF Written
<1>6. ASSUME NEW k \in 1 .. len PROVE Written(f, q, len)[CellOf(q, k)] = Data(f, k)
  <2> DEFINE c == CellOf(q, k)
             found == CHOOSE j \in 1 .. len : c = CellOf(q, j)
  <2>1. c \in Cells /\ c # CellOf(q, 0)
    BY <1>2, <1>3, <1>4
  <2>2. \E j \in 1 .. len : c = CellOf(q, j)
    OBVIOUS
  <2>3. found \in 1 .. len /\ c = CellOf(q, found)
    BY <2>2, Zenon
  <2>4. found = k
    BY <1>3, <1>4, <2>3
  <2>5. Written(f, q, len)[c] = Data(f, found)
    BY <2>1, <2>2, Zenon DEF Written
  <2> QED
    BY <2>4, <2>5
<1>7. ASSUME NEW c \in Cells, \A k \in 0 .. len : c # CellOf(q, k)
      PROVE  Written(f, q, len)[c] = memory[c]
  <2>1. c # CellOf(q, 0) /\ ~ \E k \in 1 .. len : c = CellOf(q, k)
    BY <1>4, <1>7
  <2> QED
    BY <2>1, Zenon DEF Written
<1> QED
  BY <1>5, <1>6, <1>7

LEMMA ElementIs ==
    ASSUME NEW S, NEW s \in Seq(S), NEW i \in 1 .. Len(s)
    PROVE  s[i] \in S
OBVIOUS

\* The cells of an unread frame, and those a frame at curpg would get.
LEMMA UnreadCells ==
    ASSUME NetTypes, Positions, Chain, NEW f \in Unread, NEW k \in 0 .. accepted[f].len
    PROVE  /\ CellOf(accepted[f].page, k) \in Cells /\ CellOf(accepted[f].page, k) >= 1
           /\ CellsAhead(page, CellOf(accepted[f].page, k)) < Used * PageSize
           /\ accepted[f].len \in Lengths /\ accepted[f].page \in Pages /\ k \in Nat
           /\ accepted[f].len < RingSize * PageSize
<1> DEFINE q == accepted[f].page
           len == accepted[f].len
           o == Offset(f)
           n == PagesOf(f)
<1>1. f \in 1 .. Len(accepted)
  BY DEF Unread, Positions
<1>2. len \in Lengths /\ q \in Pages /\ o + n <= Used
  <2>1. accepted \in Seq([page : Int, len : Lengths])
    BY DEF NetTypes
  <2>2. accepted[f] \in [page : Int, len : Lengths]
    BY <1>1, <2>1, ElementIs
  <2>3. q \in Pages /\ o + n <= Used
    BY DEF Chain
  <2> QED
    BY <2>2, <2>3
<1>3. n \in Nat /\ n >= 1 /\ len \in Nat \ {0} /\ len < n * PageSize
  BY <1>2, FrameFits DEF PagesOf
<1>4. page \in Pages /\ curpg \in Pages /\ Used + 2 <= RingSize
  BY DEF Positions
<1>5. o \in Nat /\ Used \in Nat /\ RingSize \in Nat /\ PageSize \in Nat
  BY <1>2, <1>4, AheadIs, RingSizes DEF Offset, Used
<1>6. o = Ahead(page, q)
  BY DEF Offset
<1>7. k \in Nat /\ k <= len
  BY <1>3
<1> HIDE DEF o, n, len, q
<1>8. /\ o * PageSize \in Int /\ n * PageSize \in Int /\ Used * PageSize \in Int /\ RingSize * PageSize \in Int
      /\ o * PageSize >= 0
      /\ o * PageSize + n * PageSize <= Used * PageSize /\ Used * PageSize <= RingSize * PageSize
  <2>1. (o + n) * PageSize <= Used * PageSize /\ Used * PageSize \in Int
    <3>1. o + n \in Int /\ Used \in Int
      BY <1>3, <1>5
    <3> QED
      BY <1>2, <3>1, Multiples
  <2>2. (o + n) * PageSize = o * PageSize + n * PageSize /\ o * PageSize \in Nat /\ n * PageSize \in Nat
    BY <1>3, <1>5, Product
  <2>3. Used * PageSize <= RingSize * PageSize /\ RingSize * PageSize \in Int
    <3>1. Used <= RingSize /\ Used \in Int /\ RingSize \in Int
      BY <1>4, <1>5
    <3> QED
      BY <3>1, Multiples
  <2> QED
    BY <2>1, <2>2, <2>3
<1>9. o * PageSize + k < Used * PageSize /\ o * PageSize + k < RingSize * PageSize /\ len < RingSize * PageSize
  BY <1>3, <1>7, <1>8
<1>10. /\ CellOf(q, k) \in Cells /\ CellOf(q, k) >= 1
       /\ CellsAhead(page, CellOf(q, k)) = o * PageSize + k
  BY <1>2, <1>4, <1>6, <1>7, <1>9, CellsAheadOf
<1> QED
  BY <1>2, <1>7, <1>9, <1>10 DEF q, len


LEMMA LastPage ==
    ASSUME NEW p \in Pages, NEW q \in Pages, Ahead(p, q) = RingSize - 1
    PROVE  q = PageBefore(p)
BY RingSizes DEF Ahead, Pages, PageBefore

\* The driver's page is the first unread frame's, which is in memory from there on.
LEMMA FirstUnread ==
    ASSUME NetTypes, RingInv, delivered < Len(accepted)
    PROVE  LET len == accepted[delivered + 1].len
           IN  /\ delivered + 1 \in Unread /\ accepted[delivered + 1].page = page /\ len \in Lengths
               /\ len < RingSize * PageSize
               /\ page * PageSize = CellOf(page, 0)
               /\ memory[page * PageSize] = Header(NextStart(delivered + 1), len)
               /\ \A k \in 1 .. len : memory[CellOf(page, k)] = Data(delivered + 1, k)
<1> DEFINE f == delivered + 1
           len == accepted[f].len
<1>1. delivered \in Nat /\ Len(accepted) \in Nat /\ f \in Unread
  BY DEF NetTypes, RingInv, Positions, Unread
<1>2. accepted[f].page = page /\ page \in Pages
  BY <1>1 DEF RingInv, Positions, NextStart
<1>3. InRing(f) /\ PageAfter(page, Needed(len)) = NextStart(f)
  BY <1>1, <1>2 DEF RingInv, UnreadKept, Chain, PagesOf
<1>4. len \in Lengths /\ len < RingSize * PageSize
  <2>1. len \in Lengths
    <3>1. f \in 1 .. Len(accepted) /\ accepted \in Seq([page : Int, len : Lengths])
      BY <1>1 DEF NetTypes
    <3>2. accepted[f] \in [page : Int, len : Lengths]
      BY <3>1, ElementIs
    <3> QED
      BY <3>2
  <2>2. 0 \in 0 .. len
    BY <2>1, FrameFits
  <2> QED
    BY <1>1, <2>1, <2>2, UnreadCells DEF RingInv
<1>5. page * PageSize = CellOf(page, 0)
  <2>1. page * PageSize \in Nat /\ page * PageSize + PageSize <= PStop * PageSize /\ PStop * PageSize \in Nat
    BY <1>2, PageCells
  <2>2. PageSize >= 2 /\ PageSize \in Nat
    BY RingSizes
  <2>3. ~ page * PageSize + 0 >= PStop * PageSize /\ page * PageSize + 0 = page * PageSize
    BY <2>1, <2>2
  <2> QED
    BY <2>3 DEF CellOf
<1>6. /\ memory[CellOf(page, 0)] = Header(PageAfter(page, Needed(len)), len)
      /\ \A k \in 1 .. len : memory[CellOf(page, k)] = Data(f, k)
  BY <1>2, <1>3, Zenon DEF InRing
<1> QED
  BY <1>1, <1>2, <1>3, <1>4, <1>5, <1>6

\* The driver finds its page at curpg when nothing is unread, and only then.
LEMMA EmptyWhenEqual ==
    ASSUME NetTypes, RingInv
    PROVE  page = curpg <=> delivered = Len(accepted)
<1>1. /\ delivered \in 0 .. Len(accepted) /\ Len(accepted) \in Nat /\ page = NextStart(delivered)
      /\ page \in Pages /\ curpg \in Pages
  BY DEF NetTypes, RingInv, Positions
<1>2. CASE delivered = Len(accepted)
  BY <1>1, <1>2 DEF NextStart
<1>3. CASE delivered < Len(accepted)
  <2>1. /\ delivered + 1 \in Unread /\ accepted[delivered + 1].page = page
        /\ accepted[delivered + 1].len \in Lengths
    BY <1>3, FirstUnread
  <2>2. Offset(delivered + 1) + PagesOf(delivered + 1) <= Used
    BY <2>1 DEF RingInv, Chain
  <2>3. Offset(delivered + 1) = 0 /\ PagesOf(delivered + 1) \in Nat /\ PagesOf(delivered + 1) >= 1
    BY <1>1, <2>1, FrameFits, AheadIs DEF Offset, PagesOf
  <2>4. page = curpg => Used = 0
    BY <1>1, AheadIs DEF Used
  <2>5. page # curpg
    BY <2>2, <2>3, <2>4
  <2> QED
    BY <1>1, <1>3, <2>5
<1> QED
  BY <1>1, <1>2, <1>3

LEMMA NetTypesStep ==
    ASSUME NetTypes, Ne2kNext \/ UNCHANGED ne2k_vars
    PROVE  NetTypes'
<1> USE DEF NetTypes
<1>1. CASE \E len \in Lengths : Receive(len)
  <2>1. PICK len \in Lengths :
            /\ memory' = Written(Len(accepted) + 1, curpg, len)
            /\ curpg' = PageAfter(curpg, Needed(len))
            /\ accepted' = Append(accepted, [page |-> curpg, len |-> len])
            /\ delivered' = delivered
    BY <1>1 DEF Receive
  <2>2. memory' = [c \in Cells |-> memory'[c]]
    BY <2>1, Zenon DEF Written
  <2>3. Needed(len) \in Nat
    BY FrameFits
  <2>4. curpg' \in Int
    BY <2>1, <2>3, RingSizes DEF PageAfter
  <2>5. [page |-> curpg, len |-> len] \in [page : Int, len : Lengths]
    OBVIOUS
  <2>6. accepted' \in Seq([page : Int, len : Lengths])
    BY <2>1, <2>5
  <2> QED
    BY <2>1, <2>2, <2>4, <2>6
<1>2. CASE Setup
  BY <1>2, RingSizes DEF Setup
<1>3. CASE WriteBody
  BY <1>3 DEF WriteBody, history
<1>4. CASE MoveBoundary
  BY <1>4 DEF MoveBoundary
<1>5. CASE \/ StartStop \/ Reset \/ Mask \/ Unmask \/ Interrupt \/ Acknowledge \/ ReadCurpg
           \/ ReadHeader \/ SetupBody \/ ReadBody \/ SetupSend \/ Send \/ UNCHANGED ne2k_vars
  <2>1. UNCHANGED <<memory, curpg, delivered, accepted>>
    BY <1>5 DEF StartStop, Reset, Mask, Unmask, Interrupt, Acknowledge, ReadCurpg, ReadHeader,
                SetupBody, ReadBody, SetupSend, Send, ne2k_vars, ring, history
  <2> QED
    BY <2>1
<1> QED
  BY <1>1, <1>2, <1>3, <1>4, <1>5 DEF Ne2kNext, Driver


\* What the actions do to the interrupt registers.
Raised == LineFollows' /\ ne2k_isr \subseteq ne2k_isr'

LEMMA DoInterruptDoes ==
    ASSUME LineFollows, NEW bits, DoInterrupt(bits) \/ UNCHANGED irq
    PROVE  Raised
BY DEF Raised, LineFollows, DoInterrupt, UpdateIrq, irq

LEMMA CommandDoes ==
    ASSUME LineFollows, NEW stopBit, NEW dma, NEW transmit, Command(stopBit, dma, transmit)
    PROVE  Raised
BY DoInterruptDoes, Zenon DEF Command

LEMMA DataPortDoes ==
    ASSUME LineFollows, DataPort
    PROVE  Raised
BY DoInterruptDoes, Zenon DEF DataPort

\* Which actions may clear a bit: the acknowledgement and the setup.
LEMMA RaisedStep ==
    ASSUME LineFollows,
           \/ StartStop \/ Reset \/ Mask \/ Unmask \/ Interrupt \/ ReadCurpg \/ ReadHeader \/ SetupBody
           \/ ReadBody \/ MoveBoundary \/ SetupSend \/ WriteBody \/ Send
           \/ (\E len \in Lengths : Receive(len)) \/ UNCHANGED ne2k_vars
    PROVE  Raised
<1>1. CASE StartStop
  BY <1>1, CommandDoes, Zenon DEF StartStop
<1>2. CASE Reset \/ (\E len \in Lengths : Receive(len))
  BY <1>2, DoInterruptDoes, Zenon DEF Reset, Receive
<1>3. CASE Mask \/ Unmask
  BY <1>3 DEF Mask, Unmask, WriteImr, UpdateIrq, Raised, LineFollows
<1>4. CASE Interrupt \/ MoveBoundary \/ UNCHANGED ne2k_vars
  <2>1. UNCHANGED irq
    BY <1>4, Zenon DEF Interrupt, MoveBoundary, ne2k_vars
  <2> QED
    BY <2>1, DoInterruptDoes
<1>5. CASE ReadCurpg
  <2>1. UNCHANGED irq \/ Command(stop, TRUE, FALSE)
    BY <1>5, Zenon DEF ReadCurpg
  <2> QED
    BY <2>1, DoInterruptDoes, CommandDoes, Zenon
<1>6. CASE ReadHeader \/ ReadBody \/ WriteBody
  BY <1>6, DataPortDoes, Zenon DEF ReadHeader, ReadBody, WriteBody
<1>7. CASE SetupBody \/ SetupSend \/ Send
  BY <1>7, CommandDoes, Zenon DEF SetupBody, SetupSend, Send
<1> QED
  BY <1>1, <1>2, <1>3, <1>4, <1>5, <1>6, <1>7

LEMMA LineStep ==
    ASSUME LineFollows, Ne2kNext \/ UNCHANGED ne2k_vars
    PROVE  LineFollows'
<1>1. CASE Setup \/ Acknowledge
  BY <1>1, Zenon DEF Setup, Acknowledge, AckIsr, UpdateIrq, LineFollows
<1>2. CASE ~ (Setup \/ Acknowledge)
  <2>1. Raised
    BY <1>2, RaisedStep, Zenon DEF Ne2kNext, Driver
  <2> QED
    BY <2>1 DEF Raised
<1> QED
  BY <1>1, <1>2

\* Steps that leave the ring as it is.
LEMMA RingStays ==
    ASSUME Positions, Chain, UnreadKept,
           UNCHANGED <<memory, curpg, boundary, rx, page, accepted, delivered>>
    PROVE  Positions' /\ Chain' /\ UnreadKept'
<1>1. /\ memory' = memory /\ curpg' = curpg /\ boundary' = boundary /\ rx' = rx /\ page' = page
      /\ accepted' = accepted /\ delivered' = delivered
  OBVIOUS
<1>2. Positions'
  BY <1>1 DEF Positions, BoundaryBehind, NextStart, Used
<1>3. Chain'
  BY <1>1 DEF Chain, Unread, NextStart, Offset, PagesOf, Used
<1>4. UnreadKept'
  BY <1>1 DEF UnreadKept, Unread, InRing
<1> QED
  BY <1>2, <1>3, <1>4

\* A frame that comes in is put behind the unread ones, and overwrites none of them.
LEMMA ReceiveStep ==
    ASSUME NetTypes, RingInv, NEW len \in Lengths, Receive(len), ~ full'
    PROVE  RingInv'
<1> DEFINE n == Needed(len)
<1>0. PICK last \in Nat : last = Len(accepted) + 1
  BY DEF NetTypes
<1>1. /\ rx /\ HasRoom(len) /\ memory' = Written(last, curpg, len)
      /\ curpg' = PageAfter(curpg, n) /\ curpg' # boundary
      /\ accepted' = Append(accepted, [page |-> curpg, len |-> len])
      /\ UNCHANGED <<boundary, rx, rsar, rcnt, pc, page, count, delivered, garbled>>
  BY <1>0 DEF Receive, control, remote, driver
<1>2. n \in Nat /\ n >= 1 /\ len \in Nat \ {0} /\ len < n * PageSize
  BY FrameFits
<1>3. /\ page \in Pages /\ curpg \in Pages /\ delivered \in 0 .. Len(accepted) /\ boundary = PageBefore(page)
      /\ Used + 2 <= RingSize /\ page = NextStart(delivered) /\ Len(accepted) \in Nat /\ ~ garbled
  BY <1>1 DEF NetTypes, RingInv, Positions, BoundaryBehind
<1>4. Used \in Nat /\ RingSize \in Nat /\ PageSize \in Nat
  BY <1>3, AheadIs, RingSizes DEF Used
<1>5. /\ curpg' \in Pages /\ Used' = Used + n /\ Used' + 2 <= RingSize
  <2>1. boundary # 0
    BY <1>3, RingSizes DEF PageBefore, Pages
  <2>2. Used + n <= RingSize - 1
    BY <1>1, <1>2, <1>3, <1>4, <2>1, AvailableIs DEF HasRoom
  <2>3. curpg' \in Pages /\ Ahead(page, curpg') = Used + n
    BY <1>1, <1>2, <1>3, <1>4, <2>2, AheadGrows DEF Used
  <2>4. Used' = Used + n
    BY <1>1, <2>3 DEF Used
  <2>5. Used + n # RingSize - 1
    BY <1>1, <1>3, <2>3, LastPage
  <2> QED
    BY <1>2, <1>4, <2>2, <2>3, <2>4, <2>5
<1>6. /\ Len(accepted') = last /\ accepted'[last] = [page |-> curpg, len |-> len]
      /\ \A f \in 1 .. Len(accepted) : accepted'[f] = accepted[f]
  <2>1. [page |-> curpg, len |-> len] \in [page : Int, len : Lengths]
    BY DEF NetTypes
  <2> QED
    BY <1>0, <1>1, <2>1 DEF NetTypes
<1>7. /\ Unread \subseteq 1 .. Len(accepted) /\ Unread' = Unread \cup {last}
      /\ \A f \in Unread : f < last
  BY <1>0, <1>1, <1>3, <1>6 DEF Unread
<1>8. \A f \in Unread : /\ accepted'[f] = accepted[f] /\ Offset(f)' = Offset(f)
                        /\ PagesOf(f)' = PagesOf(f) /\ NextStart(f)' = NextStart(f)
  BY <1>0, <1>1, <1>3, <1>6, <1>7 DEF Offset, PagesOf, NextStart
<1>9. Offset(last)' = Used /\ PagesOf(last)' = n /\ NextStart(last)' = curpg'
  BY <1>1, <1>3, <1>6 DEF Offset, PagesOf, NextStart, Used
<1>10. Positions'
  <2>1. NextStart(delivered)' = NextStart(delivered)
    BY <1>0, <1>1, <1>3, <1>6 DEF NextStart
  <2>2. boundary' = PageBefore(page')
    BY <1>1, <1>3
  <2>3. delivered' \in 0 .. Len(accepted')
    BY <1>0, <1>1, <1>3, <1>6
  <2> QED
    BY <1>1, <1>3, <1>5, <2>1, <2>2, <2>3 DEF Positions, BoundaryBehind
<1>11. Chain'
  <2>1. ASSUME NEW f \in Unread
        PROVE  /\ accepted'[f].page \in Pages
               /\ PageAfter(accepted'[f].page, PagesOf(f)') = NextStart(f)'
               /\ Offset(f)' + PagesOf(f)' <= Used'
               /\ \A g \in Unread' : f < g => Offset(f)' + PagesOf(f)' <= Offset(g)'
    <3>1. /\ accepted[f].page \in Pages
          /\ PageAfter(accepted[f].page, PagesOf(f)) = NextStart(f)
          /\ Offset(f) + PagesOf(f) <= Used
          /\ \A g \in Unread : f < g => Offset(f) + PagesOf(f) <= Offset(g)
      BY DEF RingInv, Chain
    <3>2. accepted[f].len \in Lengths
      <4>1. accepted[f] \in [page : Int, len : Lengths]
        BY <1>7, ElementIs DEF NetTypes
      <4> QED
        BY <4>1
    <3>3. Offset(f) \in Nat /\ PagesOf(f) \in Nat
      BY <1>3, <3>1, <3>2, AheadIs, FrameFits DEF Offset, PagesOf
    <3>4. Offset(f) + PagesOf(f) <= Used'
      BY <1>2, <1>4, <1>5, <3>1, <3>3
    <3> QED
      BY <1>7, <1>8, <1>9, <3>1, <3>4
  <2>2. /\ accepted'[last].page \in Pages
        /\ PageAfter(accepted'[last].page, PagesOf(last)') = NextStart(last)'
        /\ Offset(last)' + PagesOf(last)' <= Used'
        /\ \A g \in Unread' : ~ last < g
    BY <1>1, <1>3, <1>4, <1>5, <1>6, <1>7, <1>9, <1>2
  <2>3. ASSUME NEW f \in Unread'
        PROVE  /\ accepted'[f].page \in Pages
               /\ PageAfter(accepted'[f].page, PagesOf(f)') = NextStart(f)'
               /\ Offset(f)' + PagesOf(f)' <= Used'
               /\ \A g \in Unread' : f < g => Offset(f)' + PagesOf(f)' <= Offset(g)'
    BY <1>7, <2>1, <2>2
  <2> QED
    BY <2>3 DEF Chain
<1>12. UnreadKept'
  <2>1. /\ n * PageSize \in Int /\ Used * PageSize \in Int /\ RingSize * PageSize \in Int
        /\ Used * PageSize >= 0 /\ Used * PageSize + n * PageSize <= RingSize * PageSize
    <3>1. (Used + n) * PageSize <= RingSize * PageSize /\ RingSize * PageSize \in Int
      <4>1. Used + n \in Int /\ RingSize \in Int /\ Used + n <= RingSize
        BY <1>2, <1>4, <1>5
      <4> QED
        BY <4>1, Multiples
    <3>2. (Used + n) * PageSize = Used * PageSize + n * PageSize /\ Used * PageSize \in Nat /\ n * PageSize \in Nat
      BY <1>2, <1>4, Product
    <3> QED
      BY <3>1, <3>2
  <2>2. len < RingSize * PageSize /\ \A k \in 0 .. len : k \in Nat /\ Used * PageSize + k < RingSize * PageSize
    BY <1>2, <2>1
  <2>3. ASSUME NEW k \in 0 .. len PROVE CellsAhead(page, CellOf(curpg, k)) = Used * PageSize + k
    <3>1. k \in Nat /\ Ahead(page, curpg) * PageSize + k < RingSize * PageSize
      BY <2>2 DEF Used
    <3> QED
      BY <1>3, <3>1, CellsAheadOf DEF Used
  <2>4. \A k \in 0 .. len : ~ CellsAhead(page, CellOf(curpg, k)) < Used * PageSize
    BY <1>2, <2>1, <2>3
  <2>5. ASSUME NEW f \in Unread, NEW k \in 0 .. accepted[f].len
        PROVE  memory'[CellOf(accepted[f].page, k)] = memory[CellOf(accepted[f].page, k)]
    <3>1. /\ CellOf(accepted[f].page, k) \in Cells
          /\ CellsAhead(page, CellOf(accepted[f].page, k)) < Used * PageSize
      BY UnreadCells DEF RingInv
    <3>2. \A j \in 0 .. len : CellOf(accepted[f].page, k) # CellOf(curpg, j)
      BY <2>4, <3>1
    <3>3. \A c \in Cells : (\A j \in 0 .. len : c # CellOf(curpg, j)) =>
              Written(last, curpg, len)[c] = memory[c]
      BY <1>3, <2>2, WrittenIs
    <3> QED
      BY <1>1, <3>1, <3>2, <3>3, Zenon
  <2>6. ASSUME NEW f \in Unread PROVE InRing(f)'
    <3>1. InRing(f)
      BY DEF RingInv, UnreadKept
    <3>2. accepted'[f] = accepted[f]
      BY <1>8
    <3>3. accepted[f].len \in Nat
      <4>1. accepted[f] \in [page : Int, len : Lengths]
        BY <1>7, ElementIs DEF NetTypes
      <4> QED
        BY <4>1, FrameFits
    <3>4. 0 \in 0 .. accepted[f].len /\ \A k \in 1 .. accepted[f].len : k \in 0 .. accepted[f].len
      BY <3>3
    <3> QED
      BY <2>5, <3>1, <3>2, <3>4, Zenon DEF InRing
  <2>7. InRing(last)'
    <3>1. /\ memory'[CellOf(curpg, 0)] = Header(PageAfter(curpg, n), len)
          /\ \A k \in 1 .. len : memory'[CellOf(curpg, k)] = Data(last, k)
      BY <1>1, <1>3, <2>2, WrittenIs
    <3>2. accepted'[last].page = curpg /\ accepted'[last].len = len
      BY <1>6
    <3> QED
      BY <3>1, <3>2, Zenon DEF InRing
  <2> QED
    BY <1>7, <2>6, <2>7 DEF UnreadKept
<1>13. DriverPlace'
  <2>1. delivered < Len(accepted) => delivered + 1 \in 1 .. Len(accepted)
    BY <1>3
  <2>2. DriverPlace
    BY DEF RingInv
  <2> QED
    BY <1>1, <1>3, <1>6, <2>1, <2>2 DEF DriverPlace
<1> QED
  BY <1>1, <1>3, <1>10, <1>11, <1>12, <1>13 DEF RingInv


\* The driver's own page is no part of the ring.
LEMMA WriteBodyStep ==
    ASSUME NetTypes, RingInv, WriteBody
    PROVE  RingInv'
<1>1. /\ pc = "send" /\ rcnt > 0 /\ rcnt' = rcnt - 1 /\ memory' = [memory EXCEPT ![rsar] = Unknown]
      /\ UNCHANGED <<curpg, boundary, rx, pc, page, count, accepted, delivered, garbled>>
  BY DEF WriteBody, At, DataPort, control, driver, history
<1>2. rcnt = 1 /\ rsar = 0
  BY <1>1 DEF RingInv, DriverPlace
<1>3. \A c \in Cells : c >= 1 => memory'[c] = memory[c]
  BY <1>1, <1>2 DEF NetTypes
<1>4. Positions' /\ Chain'
  BY <1>1 DEF RingInv, Positions, BoundaryBehind, NextStart, Used, Chain, Unread, Offset, PagesOf
<1>5. ASSUME NEW f \in Unread PROVE InRing(f)'
  <2>1. \A k \in 0 .. accepted[f].len :
            memory'[CellOf(accepted[f].page, k)] = memory[CellOf(accepted[f].page, k)]
    BY <1>3, UnreadCells DEF RingInv
  <2>2. InRing(f) /\ accepted'[f] = accepted[f]
    BY <1>1 DEF RingInv, UnreadKept
  <2>3. accepted[f].len \in Nat
    <3>1. f \in 1 .. Len(accepted)
      BY DEF RingInv, Positions, Unread, NetTypes
    <3>2. accepted[f] \in [page : Int, len : Lengths]
      BY <3>1, ElementIs DEF NetTypes
    <3> QED
      BY <3>2, FrameFits
  <2>4. 0 \in 0 .. accepted[f].len /\ \A k \in 1 .. accepted[f].len : k \in 0 .. accepted[f].len
    BY <2>3
  <2> QED
    BY <2>1, <2>2, <2>4, Zenon DEF InRing
<1>6. UnreadKept'
  BY <1>1, <1>5 DEF UnreadKept, Unread
<1>7. DriverPlace'
  BY <1>1, <1>2 DEF DriverPlace
<1> QED
  BY <1>1, <1>4, <1>6, <1>7 DEF RingInv

\* The driver has copied the first unread frame, and goes where its header says.
LEMMA MoveStep ==
    ASSUME NetTypes, RingInv, MoveBoundary
    PROVE  RingInv'
<1>1. /\ pc = "body" /\ page' = memory[page * PageSize][2] /\ boundary' = PageBefore(page')
      /\ delivered' = delivered + 1 /\ pc' = "drain"
      /\ garbled' = (delivered' > Len(accepted) \/ accepted[delivered'].len # count)
      /\ UNCHANGED <<memory, curpg, rx, accepted>>
  BY DEF MoveBoundary, At, PageBefore, control
<1>2. delivered < Len(accepted) /\ count = accepted[delivered + 1].len
  BY <1>1 DEF RingInv, DriverPlace
<1>3. PICK f \in Nat : f = delivered + 1 /\ f \in Unread
  BY <1>2, FirstUnread DEF RingInv, Positions, NetTypes
<1> DEFINE n == PagesOf(f)
<1>4. /\ accepted[f].page = page /\ accepted[f].len \in Lengths
      /\ memory[page * PageSize] = Header(NextStart(f), accepted[f].len)
  BY <1>2, <1>3, FirstUnread
<1>5. page' = NextStart(f)
  BY <1>1, <1>4 DEF Header
<1>6. /\ page \in Pages /\ curpg \in Pages /\ Used + 2 <= RingSize /\ delivered \in 0 .. Len(accepted)
      /\ Len(accepted) \in Nat
  BY DEF RingInv, Positions, NetTypes
<1>7. /\ PageAfter(page, n) = page' /\ Offset(f) + n <= Used
      /\ \A g \in Unread : f < g => Offset(f) + n <= Offset(g)
  BY <1>3, <1>4, <1>5 DEF RingInv, Chain
<1>8. n \in Nat /\ n >= 1 /\ Offset(f) = 0 /\ Used \in Nat /\ RingSize \in Nat
  BY <1>4, <1>6, FrameFits, AheadIs, RingSizes DEF PagesOf, Offset, Used
<1>9. page' \in Pages /\ Used' = Used - n
  BY <1>1, <1>6, <1>7, <1>8, AheadShrinks DEF Used
<1>10. Unread' = Unread \ {f} /\ \A g \in Unread' : f < g /\ g \in Nat
  BY <1>1, <1>3, <1>6 DEF Unread
<1>11. ASSUME NEW g \in Unread'
       PROVE  /\ accepted[g].page \in Pages /\ Offset(g) \in Nat /\ Offset(g)' = Offset(g) - n
              /\ PagesOf(g)' = PagesOf(g) /\ PagesOf(g) \in Nat /\ NextStart(g)' = NextStart(g)
  <2>1. g \in Unread /\ f < g
    BY <1>10
  <2>2. accepted[g].page \in Pages
    BY <2>1 DEF RingInv, Chain
  <2>3. Offset(g) \in Nat /\ n <= Offset(g)
    BY <1>6, <1>7, <1>8, <2>1, <2>2, AheadIs DEF Offset
  <2>4. Offset(g)' = Offset(g) - n
    BY <1>1, <1>6, <1>7, <1>8, <2>2, <2>3, AheadShrinks DEF Offset
  <2>5. accepted[g].len \in Lengths
    <3>1. g \in 1 .. Len(accepted)
      BY <1>6, <2>1 DEF Unread
    <3>2. accepted[g] \in [page : Int, len : Lengths]
      BY <3>1, ElementIs DEF NetTypes
    <3> QED
      BY <3>2
  <2>6. PagesOf(g)' = PagesOf(g) /\ PagesOf(g) \in Nat /\ NextStart(g)' = NextStart(g)
    BY <1>1, <2>5, FrameFits DEF PagesOf, NextStart
  <2> QED
    BY <2>2, <2>3, <2>4, <2>6
<1>12. Positions'
  <2>1. delivered' \in 0 .. Len(accepted')
    BY <1>1, <1>2, <1>6
  <2>2. page' = NextStart(delivered)'
    BY <1>1, <1>3, <1>5 DEF NextStart
  <2>3. Used' + 2 <= RingSize
    BY <1>6, <1>8, <1>9
  <2>4. curpg' \in Pages /\ boundary' = PageBefore(page')
    BY <1>1, <1>6
  <2> QED
    BY <1>9, <2>1, <2>2, <2>3, <2>4 DEF Positions, BoundaryBehind
<1>13. Chain'
  <2>1. ASSUME NEW g \in Unread'
        PROVE  /\ accepted'[g].page \in Pages
               /\ PageAfter(accepted'[g].page, PagesOf(g)') = NextStart(g)'
               /\ Offset(g)' + PagesOf(g)' <= Used'
               /\ \A h \in Unread' : g < h => Offset(g)' + PagesOf(g)' <= Offset(h)'
    <3>1. /\ PageAfter(accepted[g].page, PagesOf(g)) = NextStart(g)
          /\ Offset(g) + PagesOf(g) <= Used
          /\ \A h \in Unread : g < h => Offset(g) + PagesOf(g) <= Offset(h)
      BY <1>10 DEF RingInv, Chain
    <3>2. Offset(g)' + PagesOf(g)' <= Used'
      BY <1>8, <1>9, <1>11, <3>1
    <3>3. ASSUME NEW h \in Unread', g < h PROVE Offset(g)' + PagesOf(g)' <= Offset(h)'
      <4>1. Offset(h) \in Nat /\ Offset(h)' = Offset(h) - n
        BY <1>11
      <4>2. Offset(g) + PagesOf(g) <= Offset(h)
        BY <1>10, <3>1, <3>3
      <4> QED
        BY <1>8, <1>11, <4>1, <4>2
    <3> QED
      BY <1>1, <1>11, <3>1, <3>2, <3>3
  <2> QED
    BY <2>1 DEF Chain
<1>14. UnreadKept'
  <2>1. \A g \in Unread' : InRing(g)
    BY <1>10 DEF RingInv, UnreadKept
  <2> QED
    BY <1>1, <2>1 DEF UnreadKept, InRing
<1>15. garbled' = FALSE
  <2>1. delivered' = f /\ ~ f > Len(accepted) /\ accepted[f].len = count
    BY <1>1, <1>2, <1>3, <1>6
  <2>2. garbled' = (f > Len(accepted) \/ accepted[f].len # count)
    BY <1>1, <2>1, Zenon
  <2> QED
    BY <2>1, <2>2, Zenon
<1>16. DriverPlace'
  BY <1>1 DEF DriverPlace
<1> QED
  BY <1>12, <1>13, <1>14, <1>15, <1>16, Zenon DEF RingInv

\* The card set up again: the ring is empty, whatever it was.
LEMMA SetupStep ==
    ASSUME NetTypes, Setup
    PROVE  RingInv' /\ Unread' = {} /\ pc' = "idle"
<1>1. /\ curpg' = PStart /\ boundary' = PStop - 1 /\ page' = PStart /\ pc' = "idle"
      /\ delivered' = Len(accepted) /\ accepted' = accepted
  BY DEF Setup
<1>2. Unread' = {}
  BY <1>1 DEF Unread, NetTypes
<1>3. Positions'
  <2>1. PStart \in Pages /\ Ahead(PStart, PStart) = 0 /\ PStop - 1 = PageBefore(PStart)
    BY RingSizes, AheadIs DEF Pages, PageBefore
  <2>2. Used' + 2 <= RingSize
    BY <1>1, <2>1, RingSizes DEF Used
  <2>3. delivered' \in 0 .. Len(accepted') /\ page' = NextStart(delivered)'
    BY <1>1 DEF NetTypes, NextStart
  <2> QED
    BY <1>1, <2>1, <2>2, <2>3 DEF Positions, BoundaryBehind
<1>4. Chain' /\ UnreadKept' /\ DriverPlace'
  BY <1>1, <1>2 DEF Chain, UnreadKept, DriverPlace
<1>5. ~ garbled'
  BY Zenon DEF Setup
<1> QED
  BY <1>1, <1>2, <1>3, <1>4, <1>5, Zenon DEF RingInv

\* The other steps of the driver, which leave the ring as it is.
LEMMA DriverStep ==
    ASSUME NetTypes, RingInv,
           \/ StartStop \/ Reset \/ Mask \/ Unmask \/ Interrupt \/ Acknowledge \/ ReadCurpg
           \/ ReadHeader \/ SetupBody \/ ReadBody \/ SetupSend \/ Send \/ UNCHANGED ne2k_vars
    PROVE  RingInv'
<1>1. UNCHANGED <<memory, curpg, boundary, rx, page, accepted, delivered>>
  <2>1. CASE StartStop \/ Reset \/ Mask \/ Unmask \/ Interrupt \/ Acknowledge \/ UNCHANGED ne2k_vars
    BY <2>1 DEF StartStop, Reset, Mask, Unmask, Interrupt, Acknowledge, ne2k_vars, ring, history, control, driver
  <2>2. CASE ReadCurpg
    BY <2>2 DEF ReadCurpg, ring, history, control
  <2>3. CASE ReadHeader \/ SetupBody \/ ReadBody \/ SetupSend \/ Send
    BY <2>3 DEF ReadHeader, SetupBody, ReadBody, SetupSend, Send, ring, history, control, driver
  <2> QED
    BY <2>1, <2>2, <2>3
<1>2. Positions' /\ Chain' /\ UnreadKept'
  BY <1>1, RingStays DEF RingInv
<1>3. DriverPlace /\ ~ garbled
  BY Zenon DEF RingInv
<1>4. SUFFICES ~ garbled' /\ DriverPlace'
  BY <1>2, Zenon DEF RingInv
<1>5. CASE StartStop \/ Reset \/ Mask \/ Unmask \/ Interrupt \/ Acknowledge \/ SetupSend \/ Send
  <2>1. garbled' = garbled
    BY <1>5, Zenon DEF StartStop, Reset, Mask, Unmask, Interrupt, Acknowledge, SetupSend, Send, history
  <2>2. pc' \in {"idle", "seen", "drain"} \/ (pc' = "send" /\ rsar' = 0 /\ rcnt' = 1)
    BY <1>5 DEF StartStop, Reset, Mask, Unmask, Interrupt, Acknowledge, SetupSend, Send, driver, At
  <2>3. DriverPlace'
    BY <2>2 DEF DriverPlace
  <2> QED
    BY <1>3, <2>1, <2>3, Zenon
<1>6. CASE UNCHANGED ne2k_vars
  <2>1. garbled' = garbled /\ UNCHANGED <<pc, rsar, rcnt, count>>
    BY <1>6, Zenon DEF ne2k_vars, history, remote, driver
  <2>2. DriverPlace'
    BY <1>1, <1>3, <2>1 DEF DriverPlace
  <2> QED
    BY <1>3, <2>1, <2>2, Zenon
<1>7. CASE ReadCurpg
  <2>1. /\ garbled' = garbled
        /\ pc' = "idle" \/ (page # curpg /\ pc' = "header" /\ rsar' = page * PageSize /\ rcnt' = 1)
    BY <1>7, Zenon DEF ReadCurpg, history
  <2>2. page # curpg => delivered < Len(accepted)
    BY EmptyWhenEqual DEF RingInv, Positions, NetTypes
  <2>3. DriverPlace'
    BY <1>1, <2>1, <2>2 DEF DriverPlace
  <2> QED
    BY <1>3, <2>1, <2>3, Zenon
<1>8. CASE ReadHeader
  <2>1. pc = "header"
    BY <1>8, Zenon DEF ReadHeader, At
  <2>2. delivered < Len(accepted) /\ rsar = page * PageSize
    BY <1>3, <2>1 DEF DriverPlace
  <2>3. memory[rsar] = Header(NextStart(delivered + 1), accepted[delivered + 1].len)
    BY <2>2, FirstUnread
  <2>4. memory[rsar][1] = "header" /\ memory[rsar][3] = accepted[delivered + 1].len
    BY <2>3 DEF Header
  <2>5. garbled' = garbled /\ pc' = "parsed" /\ count' = accepted[delivered + 1].len
    BY <1>8, <2>4, Zenon DEF ReadHeader
  <2>6. DriverPlace'
    BY <1>1, <2>2, <2>5 DEF DriverPlace
  <2> QED
    BY <1>3, <2>5, <2>6, Zenon
<1>9. CASE SetupBody
  <2>1. /\ pc = "parsed" /\ rsar' = page * PageSize + 1 /\ rcnt' = count /\ pc' = "body" /\ count' = count
    BY <1>9 DEF SetupBody, At
  <2>2. delivered < Len(accepted) /\ count = accepted[delivered + 1].len
    BY <1>3, <2>1 DEF DriverPlace
  <2>3. count \in Nat \ {0}
    BY <2>2, FirstUnread, FrameFits
  <2>4. rsar' = CellOf(page, 1)
    <3>1. /\ page * PageSize \in Nat /\ page * PageSize + PageSize <= PStop * PageSize /\ PStop * PageSize \in Nat
      <4>1. page \in Pages
        BY DEF RingInv, Positions
      <4> QED
        BY <4>1, PageCells
    <3>2. PageSize >= 2 /\ PageSize \in Nat
      BY RingSizes
    <3>3. ~ page * PageSize + 1 >= PStop * PageSize
      BY <3>1, <3>2
    <3> QED
      BY <2>1, <3>3 DEF CellOf
  <2>5. DriverPlace'
    <3>1. rcnt' \in 0 .. count' /\ count' - rcnt' + 1 = 1
      BY <2>1, <2>3
    <3> QED
      BY <1>1, <2>1, <2>2, <2>4, <3>1 DEF DriverPlace
  <2>6. garbled' = garbled
    BY <1>9, Zenon DEF SetupBody, history
  <2> QED
    BY <1>3, <2>5, <2>6, Zenon
<1>10. CASE ReadBody
  <2>1. /\ pc = "body" /\ rcnt > 0 /\ rsar' = NextRsar /\ rcnt' = rcnt - 1 /\ pc' = pc /\ count' = count
    BY <1>10 DEF ReadBody, At, DataPort, driver
  <2>2. /\ delivered < Len(accepted) /\ count = accepted[delivered + 1].len
        /\ rcnt \in 0 .. count /\ rsar = CellOf(page, count - rcnt + 1)
    BY <1>3, <2>1 DEF DriverPlace
  <2>3. /\ count \in Nat \ {0} /\ count < RingSize * PageSize /\ page \in Pages
        /\ \A k \in 1 .. count : memory[CellOf(page, k)] = Data(delivered + 1, k)
    BY <2>2, FirstUnread, FrameFits DEF RingInv, Positions
  <2>4. PICK k \in Nat : k = count - rcnt + 1 /\ k \in 1 .. count
    BY <2>1, <2>2, <2>3
  <2>5. memory[rsar] = Data(delivered + 1, count - rcnt + 1)
    BY <2>2, <2>3, <2>4
  <2>6. garbled' = FALSE
    BY <1>10, <2>5, Zenon DEF ReadBody
  <2>7. rcnt' \in 0 .. count'
    BY <2>1, <2>2, <2>3
  <2>8. rcnt' > 0 => rsar' = CellOf(page, count' - rcnt' + 1)
    <3> SUFFICES ASSUME rcnt' > 0 PROVE rsar' = CellOf(page, count' - rcnt' + 1)
      OBVIOUS
    <3>1. RingSize * PageSize \in Nat
      BY <2>3, PageCells
    <3>2. PICK left \in Nat : left = rcnt' /\ rcnt = left + 1 /\ left > 0
      BY <2>1, <2>2, <2>7
    <3>3. k + 1 <= count /\ count - left + 1 = k + 1
      <4>1. count \in Nat /\ rcnt = left + 1 /\ k = count - rcnt + 1
        BY <2>3, <2>4, <3>2
      <4>2. left \in Nat /\ left > 0 /\ k \in Nat
        BY <3>2
      <4>3. k = count - left
        BY <4>1, <4>2
      <4> QED
        BY <4>1, <4>2, <4>3
    <3>4. count' - rcnt' + 1 = k + 1
      BY <2>1, <3>2, <3>3, Zenon
    <3>5. k + 1 < RingSize * PageSize
      BY <2>3, <3>1, <3>3
    <3>6. NextRsar = CellOf(page, k + 1)
      BY <2>2, <2>3, <2>4, <3>5, NextCell
    <3> QED
      BY <2>1, <3>4, <3>6
  <2>9. DriverPlace'
    BY <1>1, <2>1, <2>2, <2>7, <2>8 DEF DriverPlace
  <2> QED
    BY <2>6, <2>9, Zenon
<1> QED
  BY <1>5, <1>6, <1>7, <1>8, <1>9, <1>10


\* A frame is announced when it comes in, and until the driver is on its way to the ring.
LEMMA AnnouncedStep ==
    ASSUME NetTypes, LineFollows, RingInv, Announced, Ne2kNext \/ UNCHANGED ne2k_vars
    PROVE  Announced'
<1>1. CASE Setup
  BY <1>1, SetupStep DEF Announced
<1>2. CASE \E len \in Lengths : Receive(len)
  BY <1>2, Zenon DEF Receive, DoInterrupt, Announced
<1>3. CASE Acknowledge
  <2>1. /\ pc = "seen" /\ pc' = IF "RX" \in seen THEN "drain" ELSE "idle"
        /\ ne2k_isr' = ne2k_isr \ seen /\ Unread' = Unread
    BY <1>3 DEF Acknowledge, At, AckIsr, Unread, history
  <2> QED
    BY <2>1 DEF Announced
<1>4. CASE Interrupt
  <2>1. /\ pc = "idle" /\ pc' = "seen" /\ seen' = ne2k_isr /\ ne2k_isr' = ne2k_isr /\ Unread' = Unread
    BY <1>4 DEF Interrupt, At, Unread, history, irq
  <2> QED
    BY <2>1 DEF Announced
<1>5. CASE ReadCurpg
  <2>1. CASE page = curpg
    <3>1. delivered' = Len(accepted') /\ Len(accepted') \in Nat
      BY <1>5, <2>1, EmptyWhenEqual DEF ReadCurpg, history, NetTypes
    <3>2. Unread' = {}
      BY <3>1 DEF Unread
    <3> QED
      BY <3>2 DEF Announced
  <2>2. CASE page # curpg
    BY <1>5, <2>2 DEF ReadCurpg, Announced
  <2> QED
    BY <2>1, <2>2
<1>6. CASE ReadHeader \/ SetupBody \/ ReadBody \/ MoveBoundary
  <2>1. pc' \notin {"idle", "send", "seen"}
    <3>1. CASE ReadHeader
      BY <3>1 DEF ReadHeader, At
    <3>2. CASE SetupBody \/ ReadBody \/ MoveBoundary
      BY <3>2 DEF SetupBody, ReadBody, MoveBoundary, At, driver
    <3> QED
      BY <1>6, <3>1, <3>2
  <2> QED
    BY <2>1 DEF Announced
<1>7. CASE StartStop \/ Reset \/ Mask \/ Unmask \/ SetupSend \/ WriteBody \/ Send \/ UNCHANGED ne2k_vars
  <2>1. Unread' = Unread
    BY <1>7 DEF StartStop, Reset, Mask, Unmask, SetupSend, WriteBody, Send, ne2k_vars, history, Unread
  <2>2. pc \in {"idle", "send"} \/ (pc' = pc /\ seen' = seen)
    BY <1>7 DEF StartStop, Reset, Mask, Unmask, SetupSend, WriteBody, Send, ne2k_vars, driver, At
  <2>3. ne2k_isr \subseteq ne2k_isr'
    BY <1>7, RaisedStep, Zenon DEF Raised
  <2> QED
    BY <2>1, <2>2, <2>3 DEF Announced
<1> QED
  BY <1>1, <1>2, <1>3, <1>4, <1>5, <1>6, <1>7, Zenon DEF Ne2kNext, Driver

LEMMA NetInitInv == Ne2kInit => NetInv
<1> SUFFICES ASSUME Ne2kInit PROVE NetInv
  OBVIOUS
<1>1. /\ memory = [c \in Cells |-> Unknown] /\ curpg = PStart /\ boundary = PStart /\ page = PStart
      /\ pc = "idle" /\ accepted = <<>> /\ delivered = 0 /\ ne2k_isr = {}
  BY DEF Ne2kInit
<1>2. NetTypes
  BY <1>1, RingSizes DEF NetTypes
<1>3. Len(accepted) = 0 /\ Unread = {}
  BY <1>1 DEF Unread
<1>4. LineFollows
  BY Zenon DEF Ne2kInit, LineFollows
<1>5. ~ rx /\ ~ garbled
  BY Zenon DEF Ne2kInit
<1>6. Positions
  <2>1. PStart \in Pages /\ Ahead(PStart, PStart) = 0
    BY RingSizes, AheadIs DEF Pages
  <2>2. Used + 2 <= RingSize
    BY <1>1, <2>1, RingSizes DEF Used
  <2>3. page = NextStart(delivered)
    BY <1>1, <1>3 DEF NextStart
  <2>4. BoundaryBehind
    BY <1>1, <1>3, <1>5, <2>1, Zenon DEF BoundaryBehind
  <2>5. delivered \in 0 .. Len(accepted)
    BY <1>1, <1>3
  <2> QED
    BY <1>1, <2>1, <2>2, <2>3, <2>4, <2>5 DEF Positions
<1>7. Chain /\ UnreadKept /\ DriverPlace /\ Announced
  BY <1>1, <1>3 DEF Chain, UnreadKept, DriverPlace, Announced
<1> QED
  BY <1>2, <1>4, <1>5, <1>6, <1>7, Zenon DEF NetInv, RingInv

LEMMA NetStep ==
    ASSUME NetInv, Ne2kNext \/ UNCHANGED ne2k_vars
    PROVE  NetInv'
<1>1. NetTypes /\ LineFollows /\ (~ full => RingInv /\ Announced)
  BY Zenon DEF NetInv
<1>2. NetTypes' /\ LineFollows'
  BY <1>1, NetTypesStep, LineStep
<1>3. ASSUME ~ full' PROVE RingInv' /\ Announced'
  <2>1. CASE Setup
    BY <1>1, <2>1, SetupStep DEF Announced
  <2>2. CASE ~ Setup
    <3>1. ~ full
      BY <1>3, <2>2, Zenon DEF Ne2kNext, Driver, StartStop, Reset, Mask, Unmask, Interrupt, Acknowledge,
          ReadCurpg, ReadHeader, SetupBody, ReadBody, MoveBoundary, SetupSend, WriteBody, Send, Receive,
          ne2k_vars, history
    <3>2. RingInv /\ Announced
      BY <1>1, <3>1
    <3>3. CASE \E len \in Lengths : Receive(len)
      BY <1>1, <1>3, <3>2, <3>3, ReceiveStep, AnnouncedStep DEF Ne2kNext
    <3>4. CASE MoveBoundary \/ WriteBody
      BY <1>1, <3>2, <3>4, MoveStep, WriteBodyStep, AnnouncedStep DEF Ne2kNext, Driver
    <3>5. CASE \/ StartStop \/ Reset \/ Mask \/ Unmask \/ Interrupt \/ Acknowledge \/ ReadCurpg
               \/ ReadHeader \/ SetupBody \/ ReadBody \/ SetupSend \/ Send \/ UNCHANGED ne2k_vars
      BY <1>1, <3>2, <3>5, DriverStep, AnnouncedStep DEF Ne2kNext, Driver
    <3> QED
      BY <2>2, <3>3, <3>4, <3>5, Zenon DEF Ne2kNext, Driver
  <2> QED
    BY <2>1, <2>2
<1> QED
  BY <1>2, <1>3, Zenon DEF NetInv

LEMMA NetInvImplies == NetInv => RingDelivers /\ FrameAnnounced
<1> SUFFICES ASSUME NetInv PROVE RingDelivers /\ FrameAnnounced
  OBVIOUS
<1>1. RingDelivers
  BY Zenon DEF NetInv, RingInv, RingDelivers, KeptUnlessFull, InOrder
<1>2. FrameAnnounced
  <2> SUFFICES ASSUME Unread # {}, ~ full, pc \in {"idle", "send"} \/ (pc = "seen" /\ "RX" \notin seen)
               PROVE  "RX" \in ne2k_isr /\ ("RX" \in imr => irq_line)
    BY Zenon DEF FrameAnnounced
  <2>1. "RX" \in ne2k_isr
    BY Zenon DEF NetInv, Announced
  <2>2. irq_line = (ne2k_isr \cap imr # {})
    BY Zenon DEF NetInv, LineFollows
  <2>3. "RX" \in imr => ne2k_isr \cap imr # {}
    BY <2>1
  <2> QED
    BY <2>1, <2>2, <2>3, Zenon
<1> QED
  BY <1>1, <1>2

-----------------------------------------------------------------------------
(* Saved states.  What is cut out of a file, and what is counted out of a  *)
(* stream, are the arrays that were saved, because both ways come to the   *)
(* same place for each of them; and memory is unpacked from where it was   *)
(* packed.  The invariant says of the file that it yields the machine that *)
(* was saved, whichever way it is read, so that a restore has only to be   *)
(* complete.  The sums of lengths are recursive functions: their existence *)
(* and what they add up to are proved from the least number at which they  *)
(* would fail.                                                             *)

LEMMA LeastElement ==
    ASSUME NEW S \in SUBSET Nat, S # {}
    PROVE  \E n \in S : \A m \in S : n <= m
<1> DEFINE Less == {ss \in Nat \X Nat : ss[1] < ss[2]}
<1>1. IsWellFoundedOn(Less, Nat)
  BY NatLessThanWellFounded DEF OpToRel
<1>2. \A m, n \in Nat : <<m, n>> \in Less <=> m < n
  OBVIOUS
<1> HIDE DEF Less
<1>3. PICK n \in S : \A m \in S : ~ (<<m, n>> \in Less)
  BY <1>1, WFMin
<1>4. n \in Nat /\ \A m \in S : m \in Nat /\ ~ (m < n)
  BY <1>2, <1>3
<1> QED
  BY <1>3, <1>4

\* What holds at the first and of the next after each, holds of all.
LEMMA Climbs ==
    ASSUME NEW n \in Nat, NEW S \in SUBSET Nat, 1 \in S, \A i \in 1 .. n : i \in S => i + 1 \in S
    PROVE  1 .. n + 1 \subseteq S
<1> DEFINE Missed == (1 .. n + 1) \ S
<1> SUFFICES ASSUME Missed # {} PROVE FALSE
  OBVIOUS
<1>1. PICK k \in Missed : \A m \in Missed : k <= m
  <2>1. Missed \in SUBSET Nat
    OBVIOUS
  <2> HIDE DEF Missed
  <2> QED
    BY <2>1, LeastElement
<1>2. k # 1
  BY <1>1
<1>3. k - 1 \in 1 .. n /\ k - 1 \in S
  BY <1>1, <1>2
<1>4. (k - 1) + 1 = k
  BY <1>1
<1> QED
  BY <1>1, <1>3, <1>4

\* A function that starts with a and goes on by step.
Goes(f, n, a, step) == f = [i \in 1 .. n + 1 |-> IF i = 1 THEN a ELSE step[<<i - 1, f[i - 1]>>]]

LEMMA Accumulates ==
    ASSUME NEW n \in Nat, NEW a \in Nat, NEW step \in [(1 .. n) \X Nat -> Nat]
    PROVE  \E f \in [1 .. n + 1 -> Nat] : Goes(f, n, a, step)
<1> DEFINE Reached == {k \in 1 .. n + 1 : \E f \in [1 .. k -> Nat] :
                          f = [i \in 1 .. k |-> IF i = 1 THEN a ELSE step[<<i - 1, f[i - 1]>>]]}
<1>1. 1 \in Reached
  <2> DEFINE f == [i \in 1 .. 1 |-> a]
  <2>1. f \in [1 .. 1 -> Nat] /\ f = [i \in 1 .. 1 |-> IF i = 1 THEN a ELSE step[<<i - 1, f[i - 1]>>]]
    OBVIOUS
  <2> HIDE DEF f
  <2>2. 1 \in 1 .. n + 1
    OBVIOUS
  <2> QED
    BY <2>1, <2>2
<1>2. ASSUME NEW k \in 1 .. n, k \in Reached PROVE k + 1 \in Reached
  <2>1. PICK f \in [1 .. k -> Nat] :
                f = [i \in 1 .. k |-> IF i = 1 THEN a ELSE step[<<i - 1, f[i - 1]>>]]
    BY <1>2
  <2> DEFINE g == [i \in 1 .. k + 1 |-> IF i = k + 1 THEN step[<<k, f[k]>>] ELSE f[i]]
  <2>2. g \in [1 .. k + 1 -> Nat]
    BY <2>1
  <2>3. ASSUME NEW i \in 1 .. k + 1 PROVE g[i] = IF i = 1 THEN a ELSE step[<<i - 1, g[i - 1]>>]
    <3>1. CASE i = k + 1
      <4>1. i # 1 /\ i - 1 = k /\ g[k] = f[k] /\ g[i] = step[<<k, f[k]>>]
        BY <3>1
      <4> QED
        BY <4>1
    <3>2. CASE i # k + 1
      <4>1. i \in 1 .. k /\ g[i] = f[i] /\ (i # 1 => g[i - 1] = f[i - 1])
        BY <3>2
      <4>2. f[i] = IF i = 1 THEN a ELSE step[<<i - 1, f[i - 1]>>]
        BY <2>1, <4>1
      <4> QED
        BY <4>1, <4>2
    <3> QED
      BY <3>1, <3>2
  <2> HIDE DEF g
  <2>4. g = [i \in 1 .. k + 1 |-> IF i = 1 THEN a ELSE step[<<i - 1, g[i - 1]>>]]
    BY <2>2, <2>3
  <2>5. k + 1 \in 1 .. n + 1
    OBVIOUS
  <2> QED
    BY <2>2, <2>4, <2>5
<1>3. n + 1 \in Reached
  <2> HIDE DEF Reached
  <2>1. Reached \in SUBSET Nat
    BY DEF Reached
  <2> QED
    BY <1>1, <1>2, <2>1, Climbs
<1> QED
  BY <1>3 DEF Goes

\* What is aligned stays where it is, and what is not moves up to the next place that is.
LEMMA RoundUpIs ==
    ASSUME NEW n \in Nat
    PROVE  RoundUp(n) \in Nat /\ RoundUp(n) >= n /\ RoundUp(n) % Alignment = 0
<1>1. Alignment \in Nat \ {0}
  BY SavedStateAssumption
<1> DEFINE x == n + Alignment - 1
           q == x \div Alignment
<1>2. x \in Int /\ x >= 0 /\ q \in Int /\ q >= 0 /\ x = Alignment * q + (x % Alignment)
  <2>1. x \in Int /\ x >= 0
    BY <1>1
  <2> HIDE DEF x
  <2>2. q \in Int /\ q >= 0
    BY <1>1, <2>1, DivGrows
  <2>3. x = Alignment * q + (x % Alignment)
    BY <1>1, <2>1, QuotientIs, Zenon
  <2> QED
    BY <2>1, <2>2, <2>3
<1>3. x % Alignment \in 0 .. Alignment - 1
  BY <1>1
<1>4. RoundUp(n) = q * Alignment
  BY DEF RoundUp
<1> HIDE DEF q
<1>5. q * Alignment = Alignment * q + 0 /\ Alignment * q \in Int /\ Alignment * q >= 0
  BY <1>1, <1>2
<1>6. (Alignment * q + 0) % Alignment = 0
  BY <1>1, <1>2, ModUnique
<1> QED
  BY <1>1, <1>2, <1>3, <1>4, <1>5, <1>6

LEMMA RoundUpFrom ==
    ASSUME NEW m \in Nat, m % Alignment = 0, NEW n \in Nat
    PROVE  RoundUp(m + n) = m + RoundUp(n) /\ RoundUp(m) = m
<1>1. Alignment \in Nat \ {0}
  BY SavedStateAssumption
<1>2. PICK p \in Int : m = Alignment * p
  <2>1. m \div Alignment \in Int /\ m = Alignment * (m \div Alignment) + 0
    <3>1. m \in Int
      OBVIOUS
    <3> QED
      BY <1>1, <3>1, QuotientIs, Zenon
  <2> DEFINE p == m \div Alignment
  <2> HIDE DEF p
  <2>2. p \in Int /\ m = Alignment * p + 0
    BY <2>1 DEF p
  <2>3. Alignment * p + 0 = Alignment * p
    BY <1>1, <2>2
  <2> QED
    BY <2>2, <2>3, Zenon
<1>3. ASSUME NEW k \in Nat PROVE RoundUp(m + k) = m + RoundUp(k)
  <2> DEFINE x == k + Alignment - 1
  <2>1. x \in Int
    BY <1>1
  <2> HIDE DEF x
  <2>2. x % Alignment \in 0 .. Alignment - 1 /\ \E q \in Int : x = Alignment * q + (x % Alignment)
    BY <1>1, <2>1, DivMod
  <2> DEFINE rest == x % Alignment
  <2> HIDE DEF rest
  <2>9. rest \in 0 .. Alignment - 1 /\ \E q \in Int : x = Alignment * q + rest
    BY <2>2 DEF rest
  <2>10. PICK q \in Int : x = Alignment * q + rest
    BY <2>9
  <2>3. (Alignment * q + rest) \div Alignment = q
    BY <1>1, <2>9, DivUnique
  <2>4. Alignment * (p + q) = Alignment * p + Alignment * q /\ Alignment * p \in Int /\ Alignment * q \in Int
    BY <1>1, Distributes
  <2>5. (Alignment * (p + q) + rest) \div Alignment = p + q
    BY <1>1, <2>9, DivUnique
  <2>6. m + k + Alignment - 1 = Alignment * (p + q) + rest
    <3>1. m + k + Alignment - 1 = m + x
      BY <1>1 DEF x
    <3> QED
      BY <1>2, <2>4, <2>9, <2>10, <3>1
  <2>7. RoundUp(m + k) = (p + q) * Alignment /\ RoundUp(k) = q * Alignment
    BY <2>3, <2>5, <2>6, <2>10 DEF RoundUp, x
  <2>8. (p + q) * Alignment = Alignment * (p + q) /\ q * Alignment = Alignment * q
    BY <1>1
  <2> QED
    BY <1>2, <2>4, <2>7, <2>8
<1>4. RoundUp(0) = 0
  <2>1. 0 + Alignment - 1 \in 0 .. Alignment - 1
    BY <1>1
  <2>2. (Alignment * 0 + (Alignment - 1)) \div Alignment = 0
    BY <1>1, <2>1, DivUnique
  <2>3. 0 + Alignment - 1 = Alignment * 0 + (Alignment - 1) /\ 0 * Alignment = 0
    BY <1>1
  <2> QED
    BY <2>2, <2>3 DEF RoundUp
<1>5. RoundUp(m + 0) = m + RoundUp(0) /\ m + 0 = m
  BY <1>3
<1> QED
  BY <1>3, <1>4, <1>5

\* A sequence of arrays, whatever is in them.
Arrays(b) ==
    /\ Len(b) \in Nat /\ b = [i \in 1 .. Len(b) |-> b[i]]
    /\ \A i \in 1 .. Len(b) : Len(b[i]) \in Nat /\ b[i] = [k \in 1 .. Len(b[i]) |-> b[i][k]]

LEMMA OffsetsAre ==
    ASSUME NEW b, Arrays(b)
    PROVE  /\ BufferOffsets(b) \in [1 .. Len(b) + 1 -> Nat] /\ BufferOffsets(b)[1] = 0
           /\ \A i \in 1 .. Len(b) : BufferOffsets(b)[i + 1] = BufferOffsets(b)[i] + RoundUp(Len(b[i]))
<1> DEFINE n == Len(b)
           step == [p \in (1 .. n) \X Nat |-> p[2] + RoundUp(Len(b[p[1]]))]
           P(at) == at = [i \in 1 .. Len(b) + 1 |-> IF i = 1 THEN 0 ELSE at[i - 1] + RoundUp(Len(b[i - 1]))]
<1>1. n \in Nat /\ \A i \in 1 .. n : Len(b[i]) \in Nat /\ RoundUp(Len(b[i])) \in Nat
  BY RoundUpIs DEF Arrays
<1>2. step \in [(1 .. n) \X Nat -> Nat] /\ \A i \in 1 .. n, x \in Nat : step[<<i, x>>] = x + RoundUp(Len(b[i]))
  BY <1>1
<1> HIDE DEF step
<1>3. PICK f \in [1 .. n + 1 -> Nat] : Goes(f, n, 0, step)
  BY <1>1, <1>2, Accumulates
<1> HIDE DEF n
<1>4. ASSUME NEW i \in 1 .. n + 1 PROVE f[i] = IF i = 1 THEN 0 ELSE f[i - 1] + RoundUp(Len(b[i - 1]))
  <2>1. f[i] = IF i = 1 THEN 0 ELSE step[<<i - 1, f[i - 1]>>]
    BY <1>3 DEF Goes
  <2>2. CASE i # 1
    <3>1. i - 1 \in 1 .. n /\ f[i - 1] \in Nat
      BY <1>1, <1>3, <2>2
    <3> QED
      BY <1>2, <2>1, <2>2, <3>1
  <2> QED
    BY <2>1, <2>2
<1>5. P(f)
  BY <1>3, <1>4 DEF n
<1>6. BufferOffsets(b) = CHOOSE at : P(at)
  BY DEF BufferOffsets
<1>7. P(BufferOffsets(b))
  <2> HIDE DEF P
  <2> QED
    BY <1>5, <1>6
<1> DEFINE at == BufferOffsets(b)
<1>8. at = [i \in 1 .. n + 1 |-> IF i = 1 THEN 0 ELSE at[i - 1] + RoundUp(Len(b[i - 1]))]
  BY <1>7 DEF n
<1> HIDE DEF P, at
<1>9. at[1] = 0
  BY <1>1, <1>8
<1>10. ASSUME NEW i \in 1 .. n PROVE at[i + 1] = at[i] + RoundUp(Len(b[i]))
  <2>1. i + 1 \in 1 .. n + 1 /\ i + 1 # 1 /\ (i + 1) - 1 = i
    BY <1>1
  <2> QED
    BY <1>8, <2>1
<1>11. ASSUME NEW i \in 1 .. n + 1 PROVE at[i] \in Nat
  <2> DEFINE S == {k \in Nat : k \in 1 .. n + 1 => at[k] \in Nat}
  <2>1. 1 \in S
    BY <1>9
  <2>2. ASSUME NEW k \in 1 .. n, k \in S PROVE k + 1 \in S
    BY <1>1, <1>10, <2>2
  <2>3. 1 .. n + 1 \subseteq S
    <3> HIDE DEF S
    <3>1. S \in SUBSET Nat
      BY DEF S
    <3> QED
      BY <1>1, <2>1, <2>2, <3>1, Climbs
  <2> QED
    BY <2>3
<1> QED
  BY <1>8, <1>9, <1>10, <1>11 DEF n, at

\* Every array starts aligned, and none before the end of an earlier one.
LEMMA OffsetsGrow ==
    ASSUME NEW b, Arrays(b)
    PROVE  \A i \in 1 .. Len(b) + 1 :
               /\ BufferOffsets(b)[i] % Alignment = 0
               /\ \A j \in 1 .. Len(b) : j < i => BufferOffsets(b)[j] + Len(b[j]) <= BufferOffsets(b)[i]
<1> DEFINE n == Len(b)
           at == BufferOffsets(b)
           Fine(i) == /\ at[i] % Alignment = 0
                      /\ \A j \in 1 .. n : j < i => at[j] + Len(b[j]) <= at[i]
           S == {k \in Nat : k \in 1 .. n + 1 => Fine(k)}
<1>1. /\ n \in Nat /\ at \in [1 .. n + 1 -> Nat] /\ at[1] = 0
      /\ \A i \in 1 .. n : at[i + 1] = at[i] + RoundUp(Len(b[i])) /\ Len(b[i]) \in Nat
  BY OffsetsAre DEF Arrays
<1> HIDE DEF n, at
<1>2. 1 \in S
  <2>1. 0 % Alignment = 0
    BY SavedStateAssumption, Small
  <2> QED
    BY <1>1, <2>1
<1>3. ASSUME NEW k \in 1 .. n, k \in S PROVE k + 1 \in S
  <2>1. Fine(k) /\ k + 1 \in 1 .. n + 1 /\ at[k] \in Nat /\ Len(b[k]) \in Nat
    BY <1>1, <1>3
  <2>2. /\ RoundUp(Len(b[k])) \in Nat /\ RoundUp(Len(b[k])) >= Len(b[k])
        /\ RoundUp(at[k] + RoundUp(Len(b[k]))) = at[k] + RoundUp(RoundUp(Len(b[k])))
        /\ RoundUp(RoundUp(Len(b[k]))) = RoundUp(Len(b[k]))
    <3>1. RoundUp(Len(b[k])) \in Nat /\ RoundUp(Len(b[k])) >= Len(b[k]) /\ RoundUp(Len(b[k])) % Alignment = 0
      BY <2>1, RoundUpIs
    <3> QED
      BY <2>1, <3>1, RoundUpFrom
  <2>3. at[k + 1] = RoundUp(at[k] + RoundUp(Len(b[k])))
    BY <1>1, <2>2
  <2>4. at[k + 1] % Alignment = 0
    <3>1. at[k] + RoundUp(Len(b[k])) \in Nat
      BY <2>1, <2>2
    <3>2. RoundUp(at[k] + RoundUp(Len(b[k]))) % Alignment = 0
      BY <3>1, RoundUpIs, Zenon
    <3> QED
      BY <2>3, <3>2, Zenon
  <2>5. ASSUME NEW j \in 1 .. n, j < k + 1 PROVE at[j] + Len(b[j]) <= at[k + 1]
    <3>1. at[k + 1] = at[k] + RoundUp(Len(b[k])) /\ at[k] + Len(b[k]) <= at[k + 1]
      BY <1>1, <2>1, <2>2
    <3>2. CASE j = k
      BY <3>1, <3>2
    <3>3. CASE j < k
      <4>1. at[j] + Len(b[j]) <= at[k] /\ at[j] \in Nat /\ Len(b[j]) \in Nat
        BY <1>1, <2>1, <3>3
      <4> QED
        BY <2>1, <2>2, <3>1, <4>1
    <3> QED
      BY <1>1, <2>5, <3>2, <3>3
  <2> QED
    BY <2>4, <2>5
<1>4. 1 .. n + 1 \subseteq S
  <2> HIDE DEF S
  <2>1. S \in SUBSET Nat
    BY DEF S
  <2> QED
    BY <1>1, <1>2, <1>3, <2>1, Climbs
<1> QED
  BY <1>4 DEF n, at

LEMMA NonZeroIs == NonZero \subseteq SavedPages /\ IsFiniteSet(NonZero) /\ Cardinality(NonZero) \in Nat
<1>1. NPages \in Nat
  BY SavedStateAssumption
<1>2. IsFiniteSet(SavedPages)
  BY <1>1, FS_Interval DEF SavedPages
<1>3. NonZero \in SUBSET SavedPages
  BY DEF NonZero
<1> QED
  BY <1>2, <1>3, FS_Subset, FS_CardinalityType

\* The arrays of a machine, in the order they are saved. each array is and what is there.
LEMMA SavedSequences ==
    /\ Arrays(SavedBuffers) /\ Len(SavedBuffers) = Len(DeviceBytes) + 2
    /\ \A d \in AllDevices : SavedBuffers[d] = DeviceArray(d)
    /\ SavedBuffers[Len(DeviceBytes) + 1] = PackedMemory
    /\ SavedBuffers[Len(DeviceBytes) + 2] = PackedBitmap
<1> DEFINE devs == Len(DeviceBytes)
           devices == [d \in AllDevices |-> DeviceArray(d)]
           S == {DeviceArray(d) : d \in AllDevices} \cup {PackedMemory, PackedBitmap}
<1>1. devs \in Nat /\ AllDevices = 1 .. devs /\ \A d \in AllDevices : DeviceBytes[d] \in Nat \ {0}
  BY SavedStateAssumption DEF AllDevices
<1>2. devices \in Seq(S) /\ Len(devices) = devs
  BY <1>1
<1>3. <<PackedMemory, PackedBitmap>> \in Seq(S) /\ Len(<<PackedMemory, PackedBitmap>>) = 2
  OBVIOUS
<1>4. SavedBuffers = devices \o <<PackedMemory, PackedBitmap>>
  BY DEF SavedBuffers
<1> HIDE DEF S
<1>5. /\ SavedBuffers \in Seq(S) /\ Len(SavedBuffers) = devs + 2
      /\ \A d \in AllDevices : SavedBuffers[d] = devices[d]
      /\ SavedBuffers[devs + 1] = PackedMemory /\ SavedBuffers[devs + 2] = PackedBitmap
  BY <1>1, <1>2, <1>3, <1>4
<1>6. SavedBuffers = [i \in 1 .. devs + 2 |-> SavedBuffers[i]]
  BY <1>1, <1>5
<1>7. ASSUME NEW n \in Nat, NEW a, a = [k \in 1 .. n |-> a[k]]
      PROVE  Len(a) \in Nat /\ a = [k \in 1 .. Len(a) |-> a[k]]
  <2>1. a \in Seq({a[k] : k \in 1 .. n}) /\ Len(a) = n
    BY <1>7
  <2> QED
    BY <1>7, <2>1
<1>8. ASSUME NEW i \in 1 .. devs + 2
      PROVE  Len(SavedBuffers[i]) \in Nat /\ SavedBuffers[i] = [k \in 1 .. Len(SavedBuffers[i]) |-> SavedBuffers[i][k]]
  <2> DEFINE a == SavedBuffers[i]
  <2> SUFFICES \E n \in Nat : a = [k \in 1 .. n |-> a[k]]
    BY <1>7
  <2>1. CASE i \in AllDevices
    <3>1. a = DeviceArray(i) /\ DeviceBytes[i] \in Nat
      BY <1>1, <1>5, <2>1
    <3> HIDE DEF a
    <3>2. CASE device_state[i] = Absent
      <4>1. a = [k \in 1 .. 0 |-> a[k]]
        BY <3>1, <3>2 DEF DeviceArray
      <4> QED
        BY <4>1
    <3>3. CASE device_state[i] # Absent
      <4>1. a = [k \in 1 .. DeviceBytes[i] |-> a[k]]
        BY <3>1, <3>3 DEF DeviceArray
      <4> QED
        BY <3>1, <4>1
    <3> QED
      BY <3>2, <3>3
  <2>2. CASE i = devs + 1
    <3>1. Cardinality(NonZero) \in Nat
      BY NonZeroIs
    <3>2. a = PackedMemory
      BY <1>5, <2>2
    <3> HIDE DEF a
    <3>3. a = [k \in 1 .. Cardinality(NonZero) |-> a[k]]
      BY <3>2 DEF PackedMemory
    <3> QED
      BY <3>1, <3>3
  <2>3. CASE i = devs + 2
    <3>1. (NPages + ByteBits - 1) \div ByteBits \in Nat
      <4>1. ByteBits \in Nat \ {0} /\ NPages + ByteBits - 1 \in Int /\ NPages + ByteBits - 1 >= 0
        BY SavedStateAssumption
      <4> QED
        BY <4>1, DivGrows
    <3>2. a = PackedBitmap
      BY <1>5, <2>3
    <3> HIDE DEF a
    <3>3. a = [k \in 1 .. (NPages + ByteBits - 1) \div ByteBits |-> a[k]]
      BY <3>2 DEF PackedBitmap
    <3> QED
      BY <3>1, <3>3
  <2>4. i \in AllDevices \/ i = devs + 1 \/ i = devs + 2
    <3> HIDE DEF a
    <3> QED
      BY <1>1
  <2> QED
    BY <2>1, <2>2, <2>3, <2>4, Zenon
<1>9. Len(SavedBuffers) = devs + 2 /\ devs + 2 \in Nat /\ devs = Len(DeviceBytes)
  BY <1>1, <1>5
<1>10. Arrays(SavedBuffers)
  BY <1>6, <1>8, <1>9 DEF Arrays
<1> QED
  BY <1>5, <1>10

\* The first byte of the arrays.
StartOf(n) == RoundUp(HeaderBytes + n)

\* What SaveState writes: where each array is, and what is there.
IsWritten(f, n) ==
    /\ f.info_length = n /\ f.registers = registers
    /\ f.absent = {d \in AllDevices : device_state[d] = Absent}
    /\ DOMAIN f.buffer_infos = 1 .. Len(SavedBuffers) /\ Len(f.buffer_infos) = Len(SavedBuffers)
    /\ \A i \in 1 .. Len(SavedBuffers) :
          /\ f.buffer_infos[i].offset = BufferOffsets(SavedBuffers)[i]
          /\ f.buffer_infos[i].length = Len(SavedBuffers[i])
          /\ Slice(f, StartOf(n) + BufferOffsets(SavedBuffers)[i], Len(SavedBuffers[i])) = SavedBuffers[i]

LEMMA StateWritten ==
    ASSUME NEW n \in Nat, NEW f, f = SaveState(n)
    PROVE  IsWritten(f, n)
<1> DEFINE b == SavedBuffers
           m == Len(b)
           at == BufferOffsets(b)
           start == StartOf(n)
           In(k, i) == k \in start + at[i] .. start + at[i] + Len(b[i]) - 1
<1>1. /\ m \in Nat /\ b = [i \in 1 .. m |-> b[i]] /\ at \in [1 .. m + 1 -> Nat]
      /\ \A i \in 1 .. m : Len(b[i]) \in Nat /\ b[i] = [k \in 1 .. Len(b[i]) |-> b[i][k]]
      /\ \A i \in 1 .. m + 1 : \A j \in 1 .. m : j < i => at[j] + Len(b[j]) <= at[i]
  BY SavedSequences, OffsetsAre, OffsetsGrow DEF Arrays
<1>2. start \in Nat
  <2>1. HeaderBytes + n \in Nat
    BY SavedStateAssumption
  <2> QED
    BY <2>1, RoundUpIs DEF StartOf, start
<1>3. /\ f.info_length = n /\ f.registers = registers
      /\ f.absent = {d \in AllDevices : device_state[d] = Absent}
      /\ f.buffer_infos = [i \in DOMAIN b |-> [offset |-> at[i], length |-> Len(b[i])]]
      /\ f.bytes = [k \in 0 .. start + at[m + 1] - 1 |->
                        IF \E i \in DOMAIN b : In(k, i)
                        THEN LET i == CHOOSE j \in DOMAIN b : In(k, j) IN b[i][k - start - at[i] + 1]
                        ELSE "pad"]
  BY DEF SaveState, StartOf
<1> HIDE DEF b, m, at, start
<1>4. DOMAIN b = 1 .. m
  BY <1>1
<1>5. /\ DOMAIN f.buffer_infos = 1 .. m /\ Len(f.buffer_infos) = m
      /\ \A i \in 1 .. m : f.buffer_infos[i].offset = at[i] /\ f.buffer_infos[i].length = Len(b[i])
  <2>1. \A i \in 1 .. m : [offset |-> at[i], length |-> Len(b[i])] \in [offset : Nat, length : Nat]
    BY <1>1
  <2>2. f.buffer_infos = [i \in 1 .. m |-> [offset |-> at[i], length |-> Len(b[i])]]
    BY <1>3, <1>4
  <2>3. f.buffer_infos \in [1 .. m -> [offset : Nat, length : Nat]]
    BY <2>1, <2>2
  <2>4. \A g, S : g \in [1 .. m -> S] => g \in Seq(S) /\ Len(g) = m
    BY <1>1
  <2>5. f.buffer_infos \in Seq([offset : Nat, length : Nat]) /\ Len(f.buffer_infos) = m
    BY <2>3, <2>4, Zenon
  <2>6. DOMAIN f.buffer_infos = 1 .. m
    BY <2>2
  <2>7. ASSUME NEW i \in 1 .. m PROVE f.buffer_infos[i].offset = at[i] /\ f.buffer_infos[i].length = Len(b[i])
    <3>1. f.buffer_infos[i] = [offset |-> at[i], length |-> Len(b[i])]
      BY <2>2
    <3> QED
      BY <3>1
  <2> QED
    BY <2>5, <2>6, <2>7
<1>6. ASSUME NEW i \in 1 .. m PROVE Slice(f, start + at[i], Len(b[i])) = b[i]
  <2>1. Len(b[i]) \in Nat /\ at[i] \in Nat /\ at[m + 1] \in Nat /\ at[i] + Len(b[i]) <= at[m + 1]
    BY <1>1
  <2>2. ASSUME NEW l \in 1 .. Len(b[i]) PROVE f.bytes[start + at[i] + l - 1] = b[i][l]
    <3> DEFINE k == start + at[i] + l - 1
    <3>1. k \in Int /\ k \in 0 .. start + at[m + 1] - 1 /\ In(k, i) /\ k - start - at[i] + 1 = l
      <4> DEFINE y == at[i]
                 z == Len(b[i])
                 e == at[m + 1]
      <4>1. start \in Nat /\ y \in Nat /\ z \in Nat /\ e \in Nat /\ y + z <= e /\ l \in 1 .. z
        BY <1>2, <2>1
      <4> HIDE DEF y, z, e
      <4>2. /\ start + y + l - 1 \in 0 .. start + e - 1 /\ start + y + l - 1 \in start + y .. start + y + z - 1
            /\ (start + y + l - 1) - start - y + 1 = l
        BY <4>1
      <4>3. start + y + l - 1 \in Int
        BY <4>1
      <4> QED
        BY <4>2, <4>3 DEF y, z, e
    <3> HIDE DEF k
    <3>2. ASSUME NEW j \in 1 .. m, In(k, j) PROVE j = i
      <4> DEFINE x == at[i]
                 y == at[j]
                 lx == Len(b[i])
                 ly == Len(b[j])
      <4>1. /\ x \in Nat /\ lx \in Nat /\ y \in Nat /\ ly \in Nat /\ start \in Nat /\ k \in Int
            /\ i \in Int /\ j \in Int
        BY <1>1, <1>2, <2>1, <3>1
      <4>2. (j < i => y + ly <= x) /\ (i < j => x + lx <= y)
        <5>1. i \in 1 .. m + 1 /\ j \in 1 .. m + 1
          BY <1>1
        <5> QED
          BY <1>1, <5>1
      <4>3. k \in start + x .. start + x + lx - 1 /\ k \in start + y .. start + y + ly - 1
        BY <3>1, <3>2
      <4> HIDE DEF x, y, lx, ly, In
      <4>4. ~ (j < i) /\ ~ (i < j)
        BY <4>1, <4>2, <4>3
      <4> QED
        BY <4>1, <4>4
    <3> HIDE DEF In
    <3>3. (CHOOSE j \in DOMAIN b : In(k, j)) = i
      BY <1>4, <3>1, <3>2
    <3>4. f.bytes[k] = b[i][k - start - at[i] + 1]
      BY <1>3, <1>4, <3>1, <3>3
    <3> QED
      BY <3>1, <3>4 DEF k
  <2>3. Slice(f, start + at[i], Len(b[i])) = [l \in 1 .. Len(b[i]) |-> f.bytes[start + at[i] + l - 1]]
    BY DEF Slice
  <2>4. b[i] = [l \in 1 .. Len(b[i]) |-> b[i][l]]
    BY <1>1
  <2> QED
    BY <2>2, <2>3, <2>4
<1> QED
  BY <1>3, <1>5, <1>6 DEF IsWritten, b, m, at, start

\* Where the stream stands before an array, the array begins at the next aligned place.
LEMMA StreamsMeet ==
    ASSUME NEW n \in Nat, NEW f, f = SaveState(n)
    PROVE  \A i \in 1 .. Len(SavedBuffers) :
               StreamPositions(f)[i] + FrontPadding(StreamPositions(f)[i])
                   = StartOf(n) + BufferOffsets(SavedBuffers)[i]
<1> DEFINE b == SavedBuffers
           m == Len(b)
           at == BufferOffsets(b)
           start == StartOf(n)
           first == HeaderBytes + n
           step == [p \in (1 .. m) \X Nat |-> RoundUp(p[2]) + Len(b[p[1]])]
           P(position) ==
               position = [i \in 1 .. Len(f.buffer_infos) + 1 |->
                              IF i = 1 THEN HeaderBytes + f.info_length
                              ELSE position[i - 1] + FrontPadding(position[i - 1]) + f.buffer_infos[i - 1].length]
<1>1. /\ m \in Nat /\ at \in [1 .. m + 1 -> Nat] /\ at[1] = 0
      /\ \A i \in 1 .. m : Len(b[i]) \in Nat /\ at[i + 1] = at[i] + RoundUp(Len(b[i])) /\ at[i] % Alignment = 0
  <2>1. Arrays(b)
    BY SavedSequences
  <2> HIDE DEF b
  <2>2. \A i \in 1 .. m + 1 : at[i] % Alignment = 0
    BY <2>1, OffsetsGrow
  <2>3. \A i \in 1 .. m : i \in 1 .. m + 1
    BY <2>1 DEF Arrays
  <2> QED
    BY <2>1, <2>2, <2>3, OffsetsAre DEF Arrays
<1>2. first \in Nat /\ start = RoundUp(first)
  BY SavedStateAssumption DEF StartOf
<1>3. start \in Nat /\ start % Alignment = 0
  <2> HIDE DEF first, start
  <2> QED
    BY <1>2, RoundUpIs
<1>4. f.info_length = n /\ Len(f.buffer_infos) = m /\ \A i \in 1 .. m : f.buffer_infos[i].length = Len(b[i])
  <2>1. IsWritten(f, n)
    BY StateWritten
  <2> QED
    BY <2>1, Zenon DEF IsWritten
<1>5. \A x \in Nat : RoundUp(x) \in Nat /\ x + FrontPadding(x) = RoundUp(x)
  BY RoundUpIs DEF FrontPadding
<1> HIDE DEF b, m, at, start
<1>6. step \in [(1 .. m) \X Nat -> Nat] /\ \A i \in 1 .. m, x \in Nat : step[<<i, x>>] = RoundUp(x) + Len(b[i])
  <2>1. \A i \in 1 .. m : Len(b[i]) \in Nat
    BY <1>1
  <2>2. ASSUME NEW i \in 1 .. m, NEW x \in Nat PROVE RoundUp(x) + Len(b[i]) \in Nat
    <3>1. RoundUp(x) \in Nat /\ Len(b[i]) \in Nat
      BY <1>5, <2>1
    <3> QED
      BY <3>1
  <2> QED
    BY <2>2
<1> HIDE DEF step, first
<1>7. PICK g \in [1 .. m + 1 -> Nat] : Goes(g, m, first, step)
  BY <1>1, <1>2, <1>6, Accumulates
<1>8. ASSUME NEW i \in 1 .. m PROVE g[i] \in Nat /\ g[i + 1] = RoundUp(g[i]) + Len(b[i])
  <2>1. i + 1 \in 1 .. m + 1 /\ i + 1 # 1 /\ (i + 1) - 1 = i /\ i \in 1 .. m + 1
    BY <1>1
  <2>2. g[i + 1] = step[<<i, g[i]>>]
    BY <1>7, <2>1 DEF Goes
  <2> QED
    BY <1>6, <1>7, <2>1, <2>2
<1>9. g[1] = first
  <2>1. 1 \in 1 .. m + 1
    BY <1>1
  <2> QED
    BY <1>7, <2>1 DEF Goes
<1>10. ASSUME NEW i \in 1 .. m + 1
       PROVE  g[i] = IF i = 1 THEN HeaderBytes + f.info_length
                     ELSE g[i - 1] + FrontPadding(g[i - 1]) + f.buffer_infos[i - 1].length
  <2>1. CASE i = 1
    BY <1>4, <1>9, <2>1 DEF first
  <2>2. CASE i # 1
    <3>1. i - 1 \in 1 .. m /\ (i - 1) + 1 = i
      BY <1>1, <2>2
    <3>2. g[i - 1] \in Nat /\ g[(i - 1) + 1] = RoundUp(g[i - 1]) + Len(b[i - 1])
      BY <1>8, <3>1
    <3> QED
      BY <1>4, <1>5, <2>2, <3>1, <3>2
  <2> QED
    BY <2>1, <2>2
<1>11. P(g)
  BY <1>4, <1>7, <1>10
<1>12. StreamPositions(f) = CHOOSE position : P(position)
  BY DEF StreamPositions
<1>13. P(StreamPositions(f))
  <2> HIDE DEF P
  <2> QED
    BY <1>11, <1>12
<1> DEFINE position == StreamPositions(f)
<1>14. position = [i \in 1 .. m + 1 |->
                      IF i = 1 THEN first
                      ELSE position[i - 1] + FrontPadding(position[i - 1]) + f.buffer_infos[i - 1].length]
  BY <1>4, <1>13 DEF first
<1> HIDE DEF P, position
<1>15. position[1] = first
  BY <1>1, <1>14
<1>16. ASSUME NEW i \in 1 .. m, position[i] \in Nat
       PROVE  position[i + 1] = RoundUp(position[i]) + Len(b[i])
  <2>1. i + 1 \in 1 .. m + 1 /\ i + 1 # 1 /\ (i + 1) - 1 = i
    BY <1>1
  <2>2. position[i + 1] = position[i] + FrontPadding(position[i]) + f.buffer_infos[i].length
    BY <1>14, <2>1
  <2> QED
    BY <1>4, <1>5, <1>16, <2>2
<1> DEFINE Meets(i) == position[i] \in Nat /\ RoundUp(position[i]) = start + at[i]
           S == {k \in Nat : k \in 1 .. m + 1 => Meets(k)}
<1>17. 1 \in S
  BY <1>1, <1>2, <1>3, <1>15
<1>18. ASSUME NEW k \in 1 .. m, k \in S PROVE k + 1 \in S
  <2>1. k \in 1 .. m + 1 /\ k + 1 \in Nat /\ at[k] \in Nat /\ Len(b[k]) \in Nat /\ at[k] % Alignment = 0
    BY <1>1
  <2>2. Meets(k)
    BY <1>18, <2>1
  <2>3. position[k + 1] = start + at[k] + Len(b[k])
    BY <1>16, <2>2
  <2>4. (start + at[k]) % Alignment = 0
    <3>1. position[k] \in Nat /\ RoundUp(position[k]) = start + at[k]
      BY <2>2
    <3>2. RoundUp(position[k]) % Alignment = 0
      BY <3>1, RoundUpIs
    <3> QED
      BY <3>1, <3>2, Zenon
  <2>5. RoundUp((start + at[k]) + Len(b[k])) = (start + at[k]) + RoundUp(Len(b[k]))
    <3>1. start + at[k] \in Nat
      BY <1>3, <2>1
    <3> QED
      BY <2>1, <2>4, <3>1, RoundUpFrom
  <2>6. RoundUp(position[k + 1]) = start + at[k + 1] /\ position[k + 1] \in Nat
    <3>1. at[k + 1] = at[k] + RoundUp(Len(b[k])) /\ RoundUp(Len(b[k])) \in Nat
      BY <1>1, <1>5, <2>1
    <3>2. start + at[k] + Len(b[k]) = (start + at[k]) + Len(b[k]) /\ position[k + 1] \in Nat
      BY <1>3, <2>1, <2>3
    <3>3. RoundUp(position[k + 1]) = (start + at[k]) + RoundUp(Len(b[k]))
      BY <2>3, <2>5, <3>2, Zenon
    <3> QED
      BY <1>3, <2>1, <3>1, <3>2, <3>3
  <2> QED
    BY <2>1, <2>6
<1>19. 1 .. m + 1 \subseteq S
  <2> HIDE DEF S
  <2>1. S \in SUBSET Nat
    BY DEF S
  <2> QED
    BY <1>1, <1>17, <1>18, <2>1, Climbs
<1>20. ASSUME NEW i \in 1 .. m PROVE position[i] + FrontPadding(position[i]) = start + at[i]
  <2>1. i \in 1 .. m + 1
    BY <1>1
  <2>2. Meets(i)
    BY <1>19, <2>1
  <2> QED
    BY <1>5, <2>2
<1> QED
  BY <1>20 DEF b, m, at, start, position

\* Both ways yield the arrays that were saved.
LEMMA CutUp ==
    ASSUME NEW n \in Nat, NEW f, f = SaveState(n)
    PROVE  RawBuffers(f) = SavedBuffers /\ StreamBuffers(f) = SavedBuffers
<1>1. IsWritten(f, n)
  BY StateWritten
<1>2. SavedBuffers = [i \in 1 .. Len(SavedBuffers) |-> SavedBuffers[i]]
  BY SavedSequences DEF Arrays
<1>3. RawBuffers(f) = [i \in DOMAIN f.buffer_infos |->
                          Slice(f, StartOf(n) + f.buffer_infos[i].offset, f.buffer_infos[i].length)]
  BY <1>1 DEF RawBuffers, StartOf, IsWritten
<1>4. StreamBuffers(f) = [i \in DOMAIN f.buffer_infos |->
                             Slice(f, StreamPositions(f)[i] + FrontPadding(StreamPositions(f)[i]), f.buffer_infos[i].length)]
  BY DEF StreamBuffers
<1>5. DOMAIN f.buffer_infos = 1 .. Len(SavedBuffers)
  BY <1>1 DEF IsWritten
<1>6. ASSUME NEW i \in 1 .. Len(SavedBuffers)
      PROVE  /\ Slice(f, StartOf(n) + f.buffer_infos[i].offset, f.buffer_infos[i].length) = SavedBuffers[i]
             /\ Slice(f, StreamPositions(f)[i] + FrontPadding(StreamPositions(f)[i]), f.buffer_infos[i].length)
                    = SavedBuffers[i]
  <2>1. /\ f.buffer_infos[i].offset = BufferOffsets(SavedBuffers)[i]
        /\ f.buffer_infos[i].length = Len(SavedBuffers[i])
        /\ Slice(f, StartOf(n) + BufferOffsets(SavedBuffers)[i], Len(SavedBuffers[i])) = SavedBuffers[i]
    BY <1>1 DEF IsWritten
  <2>2. StreamPositions(f)[i] + FrontPadding(StreamPositions(f)[i]) = StartOf(n) + BufferOffsets(SavedBuffers)[i]
    BY StreamsMeet
  <2> QED
    BY <2>1, <2>2, Zenon
<1>7. RawBuffers(f) = [i \in 1 .. Len(SavedBuffers) |-> SavedBuffers[i]]
  BY <1>3, <1>5, <1>6, Zenon
<1>8. StreamBuffers(f) = [i \in 1 .. Len(SavedBuffers) |-> SavedBuffers[i]]
  BY <1>4, <1>5, <1>6, Zenon
<1> QED
  BY <1>2, <1>7, <1>8, Zenon

\* Memory.  The packed pages are numbered without a gap or a repetition.
LEMMA PackedPages ==
    ASSUME NEW p \in NonZero
    PROVE  /\ PackedPage(NonZero, p) \in 1 .. Cardinality(NonZero)
           /\ \A q \in NonZero : PackedPage(NonZero, q) = PackedPage(NonZero, p) => q = p
<1> DEFINE Below(x) == {q \in NonZero : q < x}
<1>1. /\ IsFiniteSet(NonZero) /\ NonZero \subseteq Int /\ Cardinality(NonZero) \in Nat
      /\ \A x \in NonZero : IsFiniteSet(Below(x)) /\ Cardinality(Below(x)) \in Nat
  <2>1. IsFiniteSet(NonZero) /\ NonZero \subseteq Int /\ Cardinality(NonZero) \in Nat
    BY NonZeroIs, SavedStateAssumption DEF SavedPages
  <2>2. ASSUME NEW x \in NonZero PROVE IsFiniteSet(Below(x)) /\ Cardinality(Below(x)) \in Nat
    <3>1. Below(x) \in SUBSET NonZero
      OBVIOUS
    <3> HIDE DEF Below
    <3> QED
      BY <2>1, <3>1, FS_Subset, FS_CardinalityType
  <2> QED
    BY <2>1, <2>2
\* A page that is passed is below the next.
<1>2. ASSUME NEW x \in NonZero, NEW S, IsFiniteSet(S), Below(x) \subseteq S, x \in S
      PROVE  Cardinality(Below(x)) + 1 <= Cardinality(S)
  <2>1. x \notin Below(x) /\ IsFiniteSet(Below(x)) /\ Cardinality(Below(x)) \in Nat
    BY <1>1
  <2>2. Below(x) \cup {x} \in SUBSET S
    BY <1>2
  <2> HIDE DEF Below
  <2>3. Cardinality(Below(x) \cup {x}) = Cardinality(Below(x)) + 1
    BY <2>1, FS_AddElement
  <2>4. Cardinality(Below(x) \cup {x}) <= Cardinality(S)
    BY <1>2, <2>2, FS_Subset
  <2> QED
    BY <2>3, <2>4
<1>3. Cardinality(Below(p)) + 1 <= Cardinality(NonZero)
  <2>1. Below(p) \subseteq NonZero
    OBVIOUS
  <2> HIDE DEF Below
  <2> QED
    BY <1>1, <1>2, <2>1
<1>4. ASSUME NEW x \in NonZero, NEW y \in NonZero, x < y
      PROVE  Cardinality(Below(x)) + 1 <= Cardinality(Below(y))
  <2>1. x \in Int /\ y \in Int /\ \A q \in NonZero : q \in Int
    BY <1>1
  <2>2. x \in Below(y)
    BY <1>4
  <2>3. Below(x) \subseteq Below(y)
    <3> SUFFICES ASSUME NEW q \in NonZero, q < x PROVE q < y
      OBVIOUS
    <3>1. q \in Int
      BY <2>1
    <3> QED
      BY <1>4, <2>1, <3>1
  <2> HIDE DEF Below
  <2> QED
    BY <1>1, <1>2, <2>2, <2>3
<1>5. \A x : PackedPage(NonZero, x) = Cardinality(Below(x)) + 1
  BY DEF PackedPage
<1> HIDE DEF Below
<1>6. PackedPage(NonZero, p) \in 1 .. Cardinality(NonZero)
  BY <1>1, <1>3, <1>5
<1>7. ASSUME NEW q \in NonZero, PackedPage(NonZero, q) = PackedPage(NonZero, p) PROVE q = p
  <2>1. Cardinality(Below(q)) = Cardinality(Below(p))
    BY <1>1, <1>5, <1>7
  <2>2. q \in Int /\ p \in Int /\ ~ (q < p) /\ ~ (p < q)
    BY <1>1, <1>4, <2>1
  <2> QED
    BY <2>2
<1> QED
  BY <1>6, <1>7

\* A bit is set for the pages that are packed, and for no other.
LEMMA BitmapIs ==
    ASSUME NEW p \in SavedPages
    PROVE  InBitmap(PackedBitmap, p) <=> p \in NonZero
<1>1. NPages \in Nat /\ ByteBits \in Nat \ {0} /\ p \in Nat /\ p <= NPages - 1
  BY SavedStateAssumption DEF SavedPages
<1>2. p \div ByteBits + 1 \in 1 .. (NPages + ByteBits - 1) \div ByteBits
  <2> DEFINE x == p \div ByteBits
             y == (NPages + ByteBits - 1) \div ByteBits
  <2>1. x \in Int /\ x >= 0
    BY <1>1, DivGrows
  <2>2. x + 1 <= y /\ y \in Int
    <3> DEFINE rest == p % ByteBits
               z == ByteBits * x
    <3>1. p = ByteBits * x + rest /\ rest \in 0 .. ByteBits - 1
      BY <1>1, QuotientIs
    <3> HIDE DEF x, rest
    <3>2. ByteBits * (x + 1) = z + ByteBits /\ z \in Int
      BY <1>1, <2>1
    <3>3. (ByteBits * (x + 1) + rest) \div ByteBits = x + 1
      <4>1. x + 1 \in Int
        BY <2>1
      <4> QED
        BY <1>1, <3>1, <4>1, DivUnique
    <3>4. ByteBits * (x + 1) + rest = p + ByteBits
      <4> HIDE DEF z
      <4>1. p = z + rest
        BY <3>1 DEF z
      <4> QED
        BY <1>1, <3>1, <3>2, <4>1
    <3>5. p + ByteBits <= NPages + ByteBits - 1 /\ p + ByteBits \in Int /\ NPages + ByteBits - 1 \in Int
      BY <1>1
    <3>6. (p + ByteBits) \div ByteBits <= y /\ y \in Int
      BY <1>1, <3>5, DivGrows
    <3> QED
      BY <3>3, <3>4, <3>6
  <2> QED
    BY <2>1, <2>2
<1>3. PackedBitmap[p \div ByteBits + 1] =
          {q % ByteBits : q \in {o \in NonZero : o \div ByteBits = (p \div ByteBits + 1) - 1}}
  BY <1>2 DEF PackedBitmap
<1>4. p \div ByteBits \in Int /\ (p \div ByteBits + 1) - 1 = p \div ByteBits
  BY <1>1, QuotientIs
<1>5. ASSUME NEW q \in NonZero, q \div ByteBits = p \div ByteBits, q % ByteBits = p % ByteBits PROVE q = p
  <2>1. q \in Int
    BY <1>1, NonZeroIs DEF SavedPages
  <2>2. q = ByteBits * (q \div ByteBits) + (q % ByteBits)
    BY <1>1, <2>1, QuotientIs
  <2>3. p = ByteBits * (p \div ByteBits) + (p % ByteBits)
    BY <1>1, QuotientIs
  <2> QED
    BY <1>5, <2>2, <2>3, Zenon
<1>6. InBitmap(PackedBitmap, p) <=> \E q \in NonZero : q \div ByteBits = p \div ByteBits /\ p % ByteBits = q % ByteBits
  <2> DEFINE d(x) == x \div ByteBits
             e(x) == x % ByteBits
  <2>1. PackedBitmap[d(p) + 1] = {e(q) : q \in {o \in NonZero : d(o) = d(p)}}
    BY <1>3, <1>4, Zenon
  <2>2. InBitmap(PackedBitmap, p) <=> e(p) \in PackedBitmap[d(p) + 1]
    BY DEF InBitmap
  <2> HIDE DEF d, e
  <2>3. InBitmap(PackedBitmap, p) <=> \E q \in NonZero : d(q) = d(p) /\ e(p) = e(q)
    BY <2>1, <2>2
  <2> QED
    BY <2>3 DEF d, e
<1> QED
  BY <1>5, <1>6, Zenon

\* Memory comes out as it went in.
LEMMA UnpackedIsPacked ==
    ASSUME mem8 \in [SavedPages -> 0 .. 1]
    PROVE  Unpacked(PackedBitmap, PackedMemory) = mem8
<1>1. {p \in SavedPages : InBitmap(PackedBitmap, p)} = NonZero
  BY BitmapIs, NonZeroIs
<1>2. Unpacked(PackedBitmap, PackedMemory) =
          [p \in SavedPages |-> IF p \in NonZero THEN PackedMemory[PackedPage(NonZero, p)] ELSE 0]
  BY <1>1 DEF Unpacked
<1>3. ASSUME NEW p \in NonZero PROVE PackedMemory[PackedPage(NonZero, p)] = mem8[p]
  <2>1. PackedPage(NonZero, p) \in 1 .. Cardinality(NonZero)
    BY PackedPages
  <2>2. (CHOOSE q \in NonZero : PackedPage(NonZero, q) = PackedPage(NonZero, p)) = p
    BY PackedPages
  <2> QED
    BY <2>1, <2>2 DEF PackedMemory
<1>4. ASSUME NEW p \in SavedPages, p \notin NonZero PROVE mem8[p] = 0
  BY <1>4 DEF NonZero
<1> QED
  BY <1>2, <1>3, <1>4

MachineTypes(m) ==
    /\ m.mem8 \in [SavedPages -> 0 .. 1] /\ m.registers \in 0 .. 1
    /\ m.device_state \in [AllDevices -> {Absent, 0, 1}]

\* However it is read, a file yields the machine it was saved from.
FileHolds ==
    /\ MachineTypes(kept)
    /\ file.registers = kept.registers
    /\ file.absent = {d \in AllDevices : kept.device_state[d] = Absent}
    /\ \A buffers \in {RawBuffers(file), StreamBuffers(file)} :
          /\ \A d \in AllDevices \ file.absent : buffers[d][1] = kept.device_state[d]
          /\ Unpacked(buffers[Len(buffers)], buffers[Len(buffers) - 1]) = kept.mem8

SavedInv == SavedTypeOK /\ RestoredIsSaved /\ (file # << >> => FileHolds)

LEMMA SavedInitInv == SavedInit => SavedInv
<1> SUFFICES ASSUME SavedInit PROVE SavedInv
  OBVIOUS
<1>1. SavedTypeOK
  BY DEF SavedInit, SavedTypeOK
<1> QED
  BY <1>1 DEF SavedInit, SavedInv, RestoredIsSaved

\* What the guest has the host save.
LEMMA SaveStep ==
    ASSUME SavedInv, Save
    PROVE  SavedInv'
<1>1. PICK n \in InfoLengths : file' = SaveState(n)
  BY DEF Save
<1>2. /\ kept' = [mem8 |-> mem8, device_state |-> device_state, registers |-> registers]
      /\ UNCHANGED <<mem8, device_state, registers, outcome>>
  BY DEF Save, machine
<1>3. SavedTypeOK /\ SavedTypeOK'
  BY <1>2 DEF SavedInv, SavedTypeOK
<1>4. RestoredIsSaved'
  BY <1>2 DEF RestoredIsSaved
<1>5. MachineTypes(kept')
  BY <1>2, <1>3 DEF MachineTypes, SavedTypeOK
<1>6. PICK f : f = file'
  OBVIOUS
<1>7. n \in Nat /\ f = SaveState(n)
  BY <1>1, <1>6, SavedStateAssumption
<1>8. /\ IsWritten(f, n) /\ RawBuffers(f) = SavedBuffers /\ StreamBuffers(f) = SavedBuffers
  BY <1>7, StateWritten, CutUp
<1>9. f.registers = registers /\ f.absent = {d \in AllDevices : device_state[d] = Absent}
  BY <1>8 DEF IsWritten
<1>10. Unpacked(SavedBuffers[Len(SavedBuffers)], SavedBuffers[Len(SavedBuffers) - 1]) = mem8
  <2>1. Len(DeviceBytes) \in Nat
    BY SavedStateAssumption
  <2>2. /\ SavedBuffers[Len(SavedBuffers)] = PackedBitmap
        /\ SavedBuffers[Len(SavedBuffers) - 1] = PackedMemory
    <3>1. Len(SavedBuffers) = Len(DeviceBytes) + 2 /\ (Len(DeviceBytes) + 2) - 1 = Len(DeviceBytes) + 1
      BY <2>1, SavedSequences
    <3> QED
      BY <3>1, SavedSequences, Zenon
  <2>3. mem8 \in [SavedPages -> 0 .. 1]
    BY <1>3 DEF SavedTypeOK
  <2> QED
    BY <2>2, <2>3, UnpackedIsPacked
<1>11. ASSUME NEW d \in AllDevices \ f.absent PROVE SavedBuffers[d][1] = device_state[d]
  <2>1. SavedBuffers[d] = DeviceArray(d) /\ device_state[d] # Absent
    BY <1>9, <1>11, SavedSequences
  <2>2. 1 \in 1 .. DeviceBytes[d]
    BY <1>11, SavedStateAssumption DEF AllDevices
  <2> QED
    BY <2>1, <2>2 DEF DeviceArray
<1>12. FileHolds'
  <2>1. /\ file'.registers = kept'.registers
        /\ file'.absent = {d \in AllDevices : kept'.device_state[d] = Absent}
    BY <1>2, <1>6, <1>9
  <2>2. \A buffers \in {RawBuffers(file'), StreamBuffers(file')} : buffers = SavedBuffers
    BY <1>6, <1>8
  <2>3. \A buffers \in {RawBuffers(file'), StreamBuffers(file')} :
          /\ \A d \in AllDevices \ file'.absent : buffers[d][1] = kept'.device_state[d]
          /\ Unpacked(buffers[Len(buffers)], buffers[Len(buffers) - 1]) = kept'.mem8
    BY <1>2, <1>6, <1>10, <1>11, <2>2
  <2> QED
    BY <1>5, <2>1, <2>3 DEF FileHolds
<1> QED
  BY <1>3, <1>4, <1>12 DEF SavedInv

\* What comes out of a file, in either way.
LEMMA RestoreStep ==
    ASSUME SavedInv, file # << >>, UNCHANGED <<file, kept>>,
           NEW buffers \in {RawBuffers(file), StreamBuffers(file)}, SetState(file, buffers)
    PROVE  SavedInv'
<1> DEFINE mine == {d \in AllDevices : device_state[d] # Absent}
           missing == {d \in mine : d \in file.absent}
           reached == IF missing = {} THEN mine ELSE {d \in mine : \A m \in missing : d < m}
<1>1. /\ SavedTypeOK /\ MachineTypes(kept) /\ file.registers = kept.registers
      /\ file.absent = {d \in AllDevices : kept.device_state[d] = Absent}
      /\ \A d \in AllDevices \ file.absent : buffers[d][1] = kept.device_state[d]
      /\ Unpacked(buffers[Len(buffers)], buffers[Len(buffers) - 1]) = kept.mem8
  BY DEF SavedInv, FileHolds
<1>2. /\ registers' = kept.registers
      /\ device_state' = [d \in AllDevices |-> IF d \in reached THEN buffers[d][1] ELSE device_state[d]]
      /\ IF missing = {} THEN mem8' = kept.mem8 /\ outcome' = "restored" ELSE outcome' = "torn" /\ UNCHANGED mem8
  BY <1>1 DEF SetState
<1>3. ASSUME NEW d \in reached PROVE d \in AllDevices \ file.absent
  BY <1>1, <1>3, SavedStateAssumption DEF AllDevices
<1>4. device_state' = [d \in AllDevices |-> IF d \in reached THEN kept.device_state[d] ELSE device_state[d]]
  BY <1>1, <1>2, <1>3
<1>5. SavedTypeOK'
  BY <1>1, <1>2, <1>4 DEF SavedTypeOK, MachineTypes
<1>6. RestoredIsSaved'
  <2> SUFFICES ASSUME outcome' = "restored"
               PROVE  /\ mem8' = kept.mem8 /\ registers' = kept.registers
                      /\ \A d \in AllDevices : device_state'[d] # Absent => device_state'[d] = kept.device_state[d]
    BY DEF RestoredIsSaved
  <2>1. missing = {} /\ mem8' = kept.mem8
    BY <1>2
  <2>2. ASSUME NEW d \in AllDevices, d \notin reached PROVE device_state'[d] = Absent
    BY <1>4, <2>1, <2>2
  <2> QED
    BY <1>2, <1>4, <2>1, <2>2
<1>7. FileHolds'
  BY DEF SavedInv, FileHolds, MachineTypes
<1> QED
  BY <1>5, <1>6, <1>7 DEF SavedInv

LEMMA SavedStep ==
    ASSUME SavedInv, SavedNext \/ UNCHANGED saved_vars
    PROVE  SavedInv'
<1>1. CASE Save
  BY <1>1, SaveStep
<1>2. CASE RestoreRaw \/ RestoreCompressed
  BY <1>2, RestoreStep DEF RestoreRaw, RestoreCompressed
<1>3. CASE RestoreRefused \/ GuestRunsOn \/ NewPage \/ UNCHANGED saved_vars
  <2>1. UNCHANGED <<file, kept>>
    BY <1>3 DEF RestoreRefused, GuestRunsOn, NewPage, saved_vars
  <2>2. SavedTypeOK' /\ RestoredIsSaved'
    <3>1. CASE RestoreRefused
      BY <3>1 DEF SavedInv, RestoreRefused, machine, SavedTypeOK, RestoredIsSaved
    <3>2. CASE GuestRunsOn
      BY <3>2 DEF SavedInv, GuestRunsOn, SavedTypeOK, RestoredIsSaved
    <3>3. CASE NewPage
      BY <3>3 DEF SavedInv, NewPage, SavedTypeOK, RestoredIsSaved
    <3>4. CASE UNCHANGED saved_vars
      BY <3>4 DEF SavedInv, saved_vars, machine, SavedTypeOK, RestoredIsSaved
    <3> QED
      BY <1>3, <3>1, <3>2, <3>3, <3>4
  <2>3. (file # << >> => FileHolds)'
    BY <2>1 DEF SavedInv, FileHolds, MachineTypes
  <2> QED
    BY <2>2, <2>3 DEF SavedInv
<1> QED
  BY <1>1, <1>2, <1>3 DEF SavedNext

-----------------------------------------------------------------------------
(* In a behaviour of the board the part runs, or nothing of it changes.    *)

LEMMA BoardStep ==
    ASSUME [BoardNext]_board_vars
    PROVE  /\ [VgaNext]_vga_vars
           /\ PciNext \/ UNCHANGED pci_vars
           /\ Ne2kNext \/ UNCHANGED ne2k_vars
           /\ SavedNext \/ UNCHANGED saved_vars
BY DEF BoardNext, board_vars, PciNext

DisplayInv == LayersInv /\ MarkInv

LEMMA DisplayInvariance == BoardSpec => []DisplayInv
<1>1. BoardInit => DisplayInv
  BY LayersInitInv, MarkInitInv, Zenon DEF BoardInit, DisplayInv
<1>2. DisplayInv /\ [BoardNext]_board_vars => DisplayInv'
  BY BoardStep, LayersStep, MarkStep, Zenon DEF DisplayInv
<1> QED
  BY <1>1, <1>2, PTL DEF BoardSpec

\* The layers that cut out the shown part of the image are those of the registers, at the start
\* address latched at the last retrace: update_layers follows every write that moves them.
THEOREM LayersAlwaysFollow == BoardSpec => []LayersFollow
<1>1. DisplayInv => LayersFollow
  BY DEF DisplayInv, LayersInv
<1> QED
  BY <1>1, DisplayInvariance, PTL

\* Whatever a write makes wrong in the pixel buffer or in the image is marked for the next fill
\* of the screen, for any banks, scales, widths and pages (vga_addr_to_pixel finds the group that
\* vga_replot reads, and each register write marks what it moves).
THEOREM WrongIsAlwaysMarked == BoardSpec => []WrongIsMarked
<1>1. DisplayInv => WrongIsMarked
  BY DEF DisplayInv, MarkInv, Marked, WrongIsMarked
<1> QED
  BY <1>1, DisplayInvariance, PTL

\* A screen_fill_buffer leaves nothing wrong that had been marked.
THEOREM FillAlwaysShowsPlanes == BoardSpec => FillShowsPlanes
<1>1. DisplayInv /\ [BoardNext]_board_vars =>
          [ScreenFillBuffer /\ Shows(graphical_mode, svga_enabled) =>
               stale' \cup unpainted' \subseteq unmarked']_vga_vars
  BY FillStep, Zenon DEF DisplayInv
<1> QED
  BY <1>1, DisplayInvariance, PTL DEF BoardSpec, FillShowsPlanes

\* The line of a card that asks for an interrupt is up, unless another card of the line has
\* lowered it or the line was routed away: raise and lower find the same line.
THEOREM LineIsUpWhileAsserted == BoardSpec => []LineUpWhileAsserted
<1>1. BoardInit => LinesInv
  BY LinesInitInv DEF BoardInit
<1>2. LinesInv /\ [BoardNext]_board_vars => LinesInv'
  BY BoardStep, LinesStep
<1>3. LinesInv => LineUpWhileAsserted
  BY DEF LinesInv
<1> QED
  BY <1>1, <1>2, <1>3, PTL DEF BoardSpec

\* However ranges are sized, assigned and restored, each port of a card's range reaches that
\* card, and no port that was given up does until a state is restored: for any cards, sizes and
\* ports, on a board whose ranges do not meet.
THEOREM RangesAlwaysDecoded == BoardSpec => []RangesDecoded
<1>1. BoardInit => RangesInv
  BY RangesInitInv DEF BoardInit
<1>2. RangesInv /\ [BoardNext]_board_vars => RangesInv'
  BY BoardStep, RangesStep
<1>3. RangesInv => RangesDecoded
  BY DEF RangesInv
<1> QED
  BY <1>1, <1>2, <1>3, PTL DEF BoardSpec

LEMMA NetInvariance == BoardSpec => []NetInv
<1>1. BoardInit => NetInv
  BY NetInitInv DEF BoardInit
<1>2. NetInv /\ [BoardNext]_board_vars => NetInv'
  BY BoardStep, NetStep
<1> QED
  BY <1>1, <1>2, PTL DEF BoardSpec

\* What the guest copies through the data port are the frames that were accepted, whole and in
\* order, and none is written over before, unless curpg has once caught up with the boundary:
\* for a ring and frames of any size, and a frame coming in at any moment.
THEOREM RingAlwaysDelivers == BoardSpec => []RingDelivers
<1>1. NetInv => RingDelivers
  BY NetInvImplies
<1> QED
  BY <1>1, NetInvariance, PTL

\* While a frame is unread and the driver is not about to look at the ring, the card's interrupt
\* is pending, and at the line unless masked: no order of frame, acknowledgement and read of
\* curpg loses it.
THEOREM FrameIsAnnounced == BoardSpec => []FrameAnnounced
<1>1. NetInv => FrameAnnounced
  BY NetInvImplies
<1> QED
  BY <1>1, NetInvariance, PTL

\* A machine restored is the machine that was saved, from a file or from a stream: for any
\* memory, any devices with arrays of any length, and any length of the description.
THEOREM RestoredIsAlwaysSaved == BoardSpec => []RestoredIsSaved
<1>1. BoardInit => SavedInv
  BY SavedInitInv DEF BoardInit
<1>2. SavedInv /\ [BoardNext]_board_vars => SavedInv'
  BY BoardStep, SavedStep
<1>3. SavedInv => RestoredIsSaved
  BY DEF SavedInv
<1> QED
  BY <1>1, <1>2, <1>3, PTL DEF BoardSpec

=============================================================================
