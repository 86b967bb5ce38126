-------------------------------- MODULE Isa --------------------------------
(***************************************************************************)
(* The devices of the ISA bus, each with an edge triggered line of its     *)
(* own: keyboard controller, serial port, clock, interval timer, the power *)
(* management timer, floppy controller and sound card.  They share no line *)
(* and no state but the DMA controller's, so in a behaviour one of them    *)
(* runs and the others stay as they are; what each promises is checked in  *)
(* one run.                                                                *)
(***************************************************************************)
EXTENDS Ps2, Uart, Rtc, Timers, Floppy, Sb16

VARIABLE device

isa_vars == <<device, vars, uart_vars, rtc_vars, timers_vars, floppy_vars, sb16_vars>>

IsaInit ==
    /\ device \in {"ps2", "uart", "rtc", "pit", "acpi", "fdc", "sb16"}
    /\ Init /\ UartInit /\ RtcInit /\ TimersInit /\ FloppyInit /\ Sb16Init

IsaNext ==
    /\ device' = device
    /\ device # "ps2" => UNCHANGED vars
    /\ device # "uart" => UNCHANGED uart_vars
    /\ device # "rtc" => UNCHANGED rtc_vars
    /\ device \notin {"pit", "acpi"} => UNCHANGED timers_vars
    /\ device \notin {"fdc", "sb16"} => UNCHANGED channel_pagehi
    /\ device # "fdc" => UNCHANGED floppy_state
    /\ device # "sb16" => UNCHANGED sound_state
    /\ \/ device = "ps2" /\ Next
       \/ device = "uart" /\ UartNext
       \/ device = "rtc" /\ RtcNext
       \/ device = "pit" /\ CounterNext
       \/ device = "acpi" /\ PmTimerNext
       \/ device = "fdc" /\ FloppyNext
       \/ device = "sb16" /\ Sb16Next

IsaSpec == IsaInit /\ [][IsaNext]_isa_vars

=============================================================================
