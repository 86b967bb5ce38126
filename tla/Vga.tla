-------------------------------- MODULE Vga --------------------------------
(***************************************************************************)
(* The graphics of vga.ts.  A picture goes through two caches: vga_replot  *)
(* turns the planes into pixel_buffer, vga_redraw turns pixel_buffer and   *)
(* the colours into the image; layers say which part of it is shown.       *)
(* A memory or register write only marks what it has made wrong            *)
(* (diff_plot, diff_addr), and the next screen_fill_buffer brings the      *)
(* marked part up to date: what a write fails to mark stays wrong.         *)
(*                                                                         *)
(* Contents are left out.  stale and unpainted say which groups of eight   *)
(* pixels (four in 8 bit modes) are not what the planes, the registers and *)
(* the colours make them, and unmarked which of these the code is known    *)
(* not to mark.  A register is the values the caches depend on; its size   *)
(* registers are not zero, as the BIOS has set a text mode before Init.    *)
(***************************************************************************)
EXTENDS Integers

CONSTANTS N,         \* groups of pixels and plane addresses
          BankSize,  \* 2^13: the address bits from here on are substituted in bank modes
          Banks,     \* rows that alternate between banks (crtc_mode, bits 0 and 1): 1, 2 or 4
          Scales,    \* addresses per group: 1 in byte, 2 in word, 4 in doubleword mode
          Offsets,   \* offset_register, in groups
          SvgaWidth, \* svga_width, in groups
          Starts     \* start_address

ASSUME SizeAssumption == N \in Nat \ {0} /\ N % 2 = 0 /\ BankSize \in Nat \ {0} /\ SvgaWidth \in Nat \ {0}
ASSUME RegisterAssumption ==
    /\ Banks \subseteq Nat \ {0} /\ 1 \in Banks /\ Scales \subseteq Nat \ {0} /\ Scales # {}
    /\ Offsets \subseteq Nat \ {0} /\ Offsets # {} /\ Starts \subseteq Nat /\ 0 \in Starts

Groups == 0 .. N - 1
Addresses == 0 .. N - 1

Registers == [graphics : BOOLEAN,  \* attribute_mode, bit 0
              pel : BOOLEAN,       \* attribute_mode, bit 6: 8 bit mode
              banks : Banks, scale : Scales, offset : Offsets, start : Starts,
              off : BOOLEAN]       \* palette_source or clocking_mode, bit 5: no picture

VARIABLES r,                       \* the registers
          graphical_mode, svga_enabled,
          virtual_width,           \* of the pixel buffer, in groups; 0 before the first graphics mode
          start_address_latched,
          layers,                  \* what they were computed from, a set of at most one
          diff_plot, diff_addr,    \* the groups between min and max
          stale,                   \* history: groups pixel_buffer has wrong
          unpainted,               \* history: groups the image has wrong
          unmarked                 \* history: wrong groups the code is known not to mark

mode == <<graphical_mode, svga_enabled>>
window == <<virtual_width, start_address_latched, layers>>
diffs == <<diff_plot, diff_addr>>
caches == <<diffs, stale, unpainted, unmarked>>
vga_vars == <<r, mode, window, caches>>

Layers(reg, width, latched) ==
    [width |-> width, start |-> latched, pel |-> reg.pel, scale |-> reg.scale, banks |-> reg.banks,
     base |-> IF reg.banks > 1 THEN reg.start ELSE 0]

TextMode == {reg \in Registers : ~ reg.graphics /\ ~ reg.pel /\ ~ reg.off /\ reg.start = 0}

VgaInit ==
    /\ r \in TextMode
    /\ graphical_mode = FALSE /\ svga_enabled = FALSE
    /\ virtual_width = 0 /\ start_address_latched = 0 /\ layers = {}
    /\ diff_plot = {} /\ diff_addr = {}
    /\ stale = {} /\ unpainted = Groups /\ unmarked = {}

-----------------------------------------------------------------------------
(* Where a group comes from.                                               *)

\* The address vga_replot reads a group from: in bank modes, rows take turns in the banks.
Source(reg, width, g) ==
    IF reg.banks = 1 \/ width = 0 THEN g * reg.scale
    ELSE LET row == g \div width
         IN (row % reg.banks) * BankSize
            + ((row \div reg.banks) * width + (g % width)) * reg.scale + reg.start

\* A mutant of GroupOf: the rows are not put back in turns.
GroupOfLinear(reg, width, a) == a \div reg.scale

\* vga_addr_to_pixel, its inverse.
GroupOf(reg, width, a) ==
    IF reg.banks = 1 THEN a \div reg.scale
    ELSE LET x == ((a - reg.start) % BankSize) \div reg.scale
             row == (x \div width) * reg.banks + ((a \div BankSize) % reg.banks)
         IN row * width + (x % width) + reg.start \div reg.scale

\* The rows of a bank mode that do not reach into the next bank, as vga_addr_to_pixel assumes.
InBank(reg, width, g) ==
    reg.banks > 1 => (((g \div width) \div reg.banks) * width + (g % width)) * reg.scale < BankSize

From(reg, width, a) == {g \in Groups : Source(reg, width, g) = a}

\* What a change of the registers or of the width makes wrong in pixel_buffer.
Moved(reg, width) ==
    {g \in Groups : Source(reg, width, g) # Source(r, virtual_width, g)}

-----------------------------------------------------------------------------
(* Marking.                                                                *)

Shows(graphical, svga) == graphical /\ ~ svga

\* diff_min and diff_max enclose what was marked.
Hull(S) == {g \in Groups : \E lo, hi \in S : lo <= g /\ g <= hi}

\* partial_replot of the eight pixels at a group: in 8 bit modes, two groups.
PartialReplot(g) ==
    LET marked == {g, IF r.pel THEN g + 1 ELSE g} \cap Groups
    IN diff_plot' = Hull(diff_plot \cup marked) /\ diff_addr' = Hull(diff_addr \cup marked)

\* complete_redraw.
CompleteRedraw(graphical) ==
    /\ diff_addr' = IF Shows(graphical, svga_enabled) THEN Groups ELSE diff_addr
    /\ UNCHANGED diff_plot

\* A mutant of CompleteReplot: without its complete_redraw.
CompleteReplotOnly(graphical) ==
    /\ diff_plot' = IF Shows(graphical, svga_enabled) THEN Groups ELSE diff_plot
    /\ UNCHANGED diff_addr

\* complete_replot: nothing unless the planes are shown.
CompleteReplot(graphical) ==
    IF Shows(graphical, svga_enabled) THEN diff_plot' = Groups /\ diff_addr' = Groups ELSE UNCHANGED diffs

\* Groups of pixel_buffer are now wrong; in text and svga modes nothing marks them.
Spoil(graphical, wrong) ==
    /\ stale' = stale \cup wrong
    /\ unmarked' = IF Shows(graphical, svga_enabled) THEN unmarked ELSE unmarked \cup wrong

\* Groups that are now wrong and that no code marks.
Lose(wrong) == stale' = stale \cup wrong /\ unmarked' = unmarked \cup wrong

-----------------------------------------------------------------------------
(* Size and layers.                                                        *)

\* A mutant of UpdatedLayers: layers stay when the screen is switched off.
UpdatedLayersOn(reg, svga, width, latched) ==
    IF svga THEN {} ELSE IF width = 0 THEN layers ELSE {Layers(reg, width, latched)}

\* update_layers.
UpdatedLayers(reg, svga, width, latched) ==
    IF svga THEN {}
    ELSE IF width = 0 THEN layers
    ELSE IF reg.off THEN {}
    ELSE {Layers(reg, width, latched)}

UpdateLayers(reg) ==
    /\ layers' = UpdatedLayers(reg, svga_enabled, virtual_width, start_address_latched)
    /\ UNCHANGED <<virtual_width, start_address_latched>>

\* update_vga_size, with the update_vertical_retrace and update_layers it ends with.
UpdateVgaSize(reg, graphical) ==
    IF Shows(graphical, svga_enabled)
    THEN /\ virtual_width' = reg.offset
         /\ start_address_latched' = reg.start
         /\ layers' = UpdatedLayers(reg, FALSE, reg.offset, reg.start)
    ELSE UNCHANGED window

-----------------------------------------------------------------------------
(* Register writes.                                                        *)

\* port3C0_write, index 0x10.  Other bits of the register may change alone.  Entering a
\* bank mode gives pixel_buffer its width, and does not mark it.
AttributeMode ==
    \E graphics, pel \in BOOLEAN :
       LET reg == [r EXCEPT !.graphics = graphics, !.pel = pel]
           gm == IF svga_enabled THEN graphical_mode ELSE graphics
       IN /\ r' = reg
          /\ graphical_mode' = gm
          /\ UpdateVgaSize(reg, gm)
          /\ IF pel # r.pel /\ Shows(gm, svga_enabled) THEN CompleteReplot(gm) ELSE CompleteRedraw(gm)
          /\ IF pel # r.pel THEN Spoil(gm, Groups) ELSE Lose(Moved(reg, virtual_width'))
          /\ unpainted' = Groups
          /\ UNCHANGED svga_enabled

Recolored ==
    /\ CompleteRedraw(graphical_mode)
    /\ unpainted' = Groups
    /\ UNCHANGED <<r, mode, window, stale, unmarked>>

\* dac_map, which 8 bit modes do not use.
InternalPalette == ~ r.pel /\ Recolored

\* color_plane_enable and color_select.
ColorRegisters == Recolored

\* dac_mask and vga256_palette.
Palette == Recolored

\* palette_source and clocking_mode.
ScreenOff ==
    \E off \in BOOLEAN :
       /\ off # r.off
       /\ r' = [r EXCEPT !.off = off]
       /\ UpdateLayers(r')
       /\ UNCHANGED <<mode, caches>>

\* port3CF_write, index 5: the shift mode, from which every pixel is made.
ShiftMode ==
    /\ CompleteReplot(graphical_mode)
    /\ Spoil(graphical_mode, Groups)
    /\ UNCHANGED <<r, mode, window, unpainted>>

\* crtc_mode and underline_location_register: addressing and banks.
CrtcMode ==
    \E scale \in Scales, banks \in Banks :
       LET reg == [r EXCEPT !.scale = scale, !.banks = banks]
       IN /\ reg # r
          /\ r' = reg
          /\ UpdateVgaSize(reg, graphical_mode)
          /\ CompleteReplot(graphical_mode)
          /\ Spoil(graphical_mode, Moved(reg, virtual_width'))
          /\ UNCHANGED <<mode, unpainted>>

\* offset_register.
OffsetRegister ==
    \E offset \in Offsets :
       LET reg == [r EXCEPT !.offset = offset]
       IN /\ reg # r
          /\ r' = reg
          /\ UpdateVgaSize(reg, graphical_mode)
          /\ IF r.banks > 1 THEN CompleteReplot(graphical_mode) ELSE UNCHANGED diffs
          /\ Spoil(graphical_mode, Moved(reg, virtual_width'))
          /\ UNCHANGED <<mode, unpainted>>

\* start_address.
StartAddress ==
    \E start \in Starts :
       LET reg == [r EXCEPT !.start = start]
       IN /\ reg # r
          /\ r' = reg
          /\ UpdateLayers(reg)
          /\ IF r.banks > 1 THEN CompleteReplot(graphical_mode) ELSE UNCHANGED diffs
          /\ Spoil(graphical_mode, Moved(reg, virtual_width'))
          /\ UNCHANGED <<mode, unpainted>>

\* A size register.  The width is the offset register's, unless svga has set it: then a
\* bank mode's pixel_buffer is wrong, and not marked.
SizeRegister ==
    /\ UpdateVgaSize(r, graphical_mode)
    /\ Lose(Moved(r, virtual_width'))
    /\ UNCHANGED <<r, mode, diffs, unpainted>>

\* port1CF_write, index 4.  The svga picture takes the image, and leaves it and
\* graphical_mode behind.
SvgaEnable ==
    /\ ~ svga_enabled
    /\ svga_enabled' = TRUE /\ graphical_mode' = TRUE
    /\ virtual_width' = SvgaWidth /\ layers' = {}
    /\ stale' = stale \cup Moved(r, SvgaWidth)
    /\ unpainted' = Groups /\ unmarked' = Groups
    /\ UNCHANGED <<r, start_address_latched, diffs>>

SvgaDisable ==
    /\ svga_enabled
    /\ svga_enabled' = FALSE
    /\ layers' = UpdatedLayers(r, FALSE, virtual_width, start_address_latched)
    /\ UNCHANGED <<r, graphical_mode, virtual_width, start_address_latched, caches>>

-----------------------------------------------------------------------------
(* Memory writes, the screen and saved states.                             *)

\* vga_memory_write.  In bank modes nothing is drawn once pages have been flipped
\* ("no page flipping after drawing", vga_addr_to_pixel); writes to svga memory are elsewhere.
Write(a) ==
    /\ ~ svga_enabled
    /\ r.banks > 1 => r.start = 0
    /\ LET wrong == From(r, virtual_width, a)
       IN IF graphical_mode
          THEN /\ PartialReplot(GroupOf(r, virtual_width, a))
               /\ stale' = stale \cup wrong
               /\ unmarked' = unmarked \cup {g \in wrong : ~ InBank(r, virtual_width, g)}
          ELSE Lose(wrong) /\ UNCHANGED diffs
    /\ UNCHANGED <<r, mode, window, unpainted>>

\* vga_replot rounds to sixteen pixels.
Replotted ==
    LET size == IF r.pel THEN 4 ELSE 2
    IN {g \in Groups : \E h \in diff_plot : h \div size = g \div size}

\* update_vertical_retrace.
UpdateVerticalRetrace ==
    /\ start_address_latched' = r.start
    /\ layers' = IF start_address_latched = r.start THEN layers
                 ELSE UpdatedLayers(r, svga_enabled, virtual_width, r.start)
    /\ UNCHANGED virtual_width

\* screen_fill_buffer: vga_replot, then vga_redraw, in svga modes neither.
ScreenFillBuffer ==
    /\ IF ~ graphical_mode THEN UNCHANGED caches
       ELSE /\ diff_plot' = {} /\ diff_addr' = {}
            /\ IF svga_enabled THEN UNCHANGED <<stale, unpainted, unmarked>>
               ELSE /\ stale' = stale \ Replotted
                    /\ unpainted' = (unpainted \cup (stale \cap Replotted)) \ diff_addr
                    /\ unmarked' = unmarked \ (Replotted \cap diff_addr)
    /\ UpdateVerticalRetrace
    /\ UNCHANGED <<r, mode>>

\* get_state and, in a new machine, set_state: the diffs and the image are not saved.
Reload ==
    LET shown == Shows(graphical_mode, svga_enabled)
        width == IF shown THEN r.offset ELSE IF svga_enabled THEN SvgaWidth ELSE 0
    IN /\ virtual_width' = width
       /\ start_address_latched' = IF shown THEN r.start ELSE start_address_latched
       /\ layers' = IF shown THEN UpdatedLayers(r, FALSE, width, r.start) ELSE {}
       /\ diff_plot' = IF shown THEN Groups ELSE {}
       /\ diff_addr' = IF shown THEN Groups ELSE {}
       /\ stale' = stale \cup Moved(r, width)
       /\ unpainted' = Groups
       /\ unmarked' = IF shown THEN unmarked ELSE unmarked \cup stale \cup Moved(r, width)
       /\ UNCHANGED <<r, mode>>

VgaNext ==
    \/ AttributeMode \/ InternalPalette \/ ColorRegisters \/ Palette \/ ScreenOff \/ ShiftMode
    \/ CrtcMode \/ OffsetRegister \/ StartAddress \/ SizeRegister
    \/ SvgaEnable \/ SvgaDisable
    \/ \E a \in Addresses : Write(a)
    \/ ScreenFillBuffer \/ Reload

VgaSpec == VgaInit /\ [][VgaNext]_vga_vars

-----------------------------------------------------------------------------
(* Properties.                                                             *)

\* What is wrong is marked: a group of pixel_buffer that does not show its planes is replotted
\* and redrawn by the next screen_fill_buffer, one of the image that does not show pixel_buffer
\* is redrawn (complete_replot, partial_replot, complete_redraw, vga_addr_to_pixel).
WrongIsMarked ==
    Shows(graphical_mode, svga_enabled) =>
        /\ stale \subseteq unmarked \cup (diff_plot \cap diff_addr)
        /\ unpainted \subseteq unmarked \cup diff_addr

\* The layers cut out what the registers say now, at the start address latched at the last
\* retrace, and nothing while the screen is off (update_layers, by every register write).
LayersFollow ==
    Shows(graphical_mode, svga_enabled) =>
        layers = IF r.off THEN {} ELSE {Layers(r, virtual_width, start_address_latched)}

\* A filled screen shows the planes: no group that was marked is left wrong.
FillShowsPlanes ==
    [][ScreenFillBuffer /\ Shows(graphical_mode, svga_enabled) =>
         stale' \cup unpainted' \subseteq unmarked']_vga_vars

=============================================================================
