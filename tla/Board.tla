------------------------------- MODULE Board -------------------------------
(***************************************************************************)
(* What is on the board beside the ISA devices: the display adapter, the   *)
(* network card, the bus that moves the ranges and the lines of cards, the *)
(* interrupt controllers, and the saved state of the whole.  They share no *)
(* state, so in a behaviour one of them runs and the others stay as they   *)
(* are; each is checked for what it promises.                              *)
(***************************************************************************)
EXTENDS Vga, Ne2k, MCPci, Interrupts, SavedState

\* Devices whose arrays have an odd length.
DeviceLengths == <<1, 3>>

\* A machine whose ranges do not meet, which a second IDE channel would break.
ASSUME BoardAssumption == RangesApart

VARIABLE part

board_vars == <<part, vga_vars, ne2k_vars, pci_vars, vars, saved_vars>>

BoardInit ==
    /\ part \in {"display", "network", "ranges", "lines", "interrupts", "state"}
    /\ VgaInit /\ (part = "display" \/ r = CHOOSE reg \in TextMode : TRUE)
    /\ Ne2kInit /\ PciInit /\ Init
    /\ SavedInit /\ (part = "state" \/ \A d \in AllDevices : device_state[d] = 0)

BoardNext ==
    /\ part' = part
    /\ part # "display" => UNCHANGED vga_vars
    /\ part # "network" => UNCHANGED ne2k_vars
    /\ part \notin {"ranges", "lines"} => UNCHANGED pci_vars
    /\ part # "interrupts" => UNCHANGED vars
    /\ part # "state" => UNCHANGED saved_vars
    /\ \/ part = "display" /\ VgaNext
       \/ part = "network" /\ Ne2kNext
       \/ part = "ranges" /\ RangesNext
       \/ part = "lines" /\ LinesNext
       \/ part = "interrupts" /\ Next
       \/ part = "state" /\ SavedNext

BoardSpec == BoardInit /\ [][BoardNext]_board_vars

=============================================================================
