------------------------------- MODULE Floppy -------------------------------
(***************************************************************************)
(* The floppy controller, floppy.ts, with channel 2 of the DMA controller, *)
(* dma.ts, and a driver.  A command is written byte by byte to port 3F5h,  *)
(* carried out at its last byte, announced by interrupt 6, and answered by *)
(* results read byte by byte from the same port: both sides count, and     *)
(* nothing but the interrupt tells the driver that a command has ended.    *)
(*                                                                         *)
(* Which sector is read is left out: a transfer is inside the image or     *)
(* not.  So is the door flag, which changes nothing else.                  *)
(***************************************************************************)
EXTENDS Dma

VARIABLES bytes_expecting, next_command, response_index, response_length,
          running,         \* dor & 4
          irq_enabled,     \* dor & 8
          fda_image,       \* there is an image
          moving,          \* external: transfers the image has not answered
          irq6,            \* external: the level of the line
          edge6,           \* external: the request the interrupt controller holds
          doing,           \* external: the driver's command, or "nothing"
          stage,           \* external: what the driver does about it
          left,            \* external: bytes it has to send or to read
          stopped,         \* external: the exception that ended the loop, or "no"
          silent           \* history: no interrupt will come for the driver's command

command_state == <<bytes_expecting, next_command>>
response == <<response_index, response_length>>
line6 == <<irq6, edge6>>
floppy_driver == <<doing, stage, left>>
settings == <<running, irq_enabled, fda_image, channel_pagehi>>
floppy_state == <<command_state, response, running, irq_enabled, fda_image, moving, line6, floppy_driver,
                  stopped, silent>>
floppy_vars == <<floppy_state, channel_pagehi>>

\* The bytes port3F5_write expects after those it implements; two commands have none.
Parameters ==
    [specify |-> 2, configure |-> 3, check_drive |-> 1, transfer |-> 8, calibrate |-> 1,
     read_id |-> 1, seek |-> 2, sense |-> 0, version |-> 0]

Commands == DOMAIN Parameters

\* external: what a driver knows of them.
Announced == {"transfer", "calibrate", "read_id", "seek", "reset"}
ResultBytes(c) ==
    IF c \in {"transfer", "read_id"} THEN 7 ELSE IF c = "sense" THEN 2
    ELSE IF c \in {"check_drive", "version"} THEN 1 ELSE 0

FloppyFlags ==
    /\ running \in BOOLEAN /\ irq_enabled \in BOOLEAN /\ fda_image \in BOOLEAN
    /\ channel_pagehi \in BOOLEAN /\ irq6 \in BOOLEAN /\ edge6 \in BOOLEAN /\ silent \in BOOLEAN

FloppyCounts ==
    /\ bytes_expecting \in 0 .. 8 /\ next_command \in Commands \cup {"none", "undefined"}
    /\ response_index \in 0 .. 7 /\ response_length \in 0 .. 7
    /\ moving \in 0 .. 1
    /\ doing \in Commands \cup {"nothing", "reset"}
    /\ stage \in {"idle", "send", "wait", "sense", "read"} /\ left \in 0 .. 8
    /\ stopped \in {"no", "command", "transfer"}

FloppyTypeOK == FloppyFlags /\ FloppyCounts

FloppyInit ==
    /\ bytes_expecting = 0 /\ next_command = "none"
    /\ response_index = 0 /\ response_length = 0
    /\ running = FALSE /\ irq_enabled = FALSE /\ fda_image \in BOOLEAN
    /\ DmaInit /\ moving = 0
    /\ irq6 = FALSE /\ edge6 = FALSE
    /\ doing = "nothing" /\ stage = "idle" /\ left = 0
    /\ stopped = "no" /\ silent = FALSE

-----------------------------------------------------------------------------
(* The controller.                                                         *)

\* device_raise_irq(6) makes a request only of a line that was low.
DeviceRaiseIrq6 == irq6' = TRUE /\ edge6' = (edge6 \/ ~ irq6)

\* device_lower_irq(6) withdraws a request not yet taken.
DeviceLowerIrq6 == irq6' = FALSE /\ edge6' = FALSE

\* raise_irq: only with interrupts enabled.
RaiseIrq6 == IF irq_enabled THEN DeviceRaiseIrq6 ELSE UNCHANGED line6

\* A mutant of Respond: the index of the answer before it is kept.
RespondOn(n) == response_index' = response_index /\ response_length' = n

Respond(n) == response_index' = 0 /\ response_length' = n

Silence == silent' = TRUE /\ UNCHANGED <<response, line6, moving, stopped>>

\* do_sector.  Nothing happens without an image, and when the transfer is outside of
\* it; an exception in do_read or do_write ends the loop.
DoSector ==
    \/ ~ fda_image /\ Silence
    \/ fda_image /\ ~ CanTransfer
       /\ stopped' = "transfer" /\ UNCHANGED <<response, line6, moving, silent>>
    \/ fda_image /\ CanTransfer
       /\ \/ Silence
          \/ moving' = moving + 1 /\ UNCHANGED <<response, line6, stopped, silent>>

\* The command whose last byte has come.
Execute(c) ==
    \/ c \in {"none", "undefined"}
       /\ stopped' = "command" /\ UNCHANGED <<response, line6, moving, silent>>
    \/ c \in {"specify", "configure"} /\ UNCHANGED <<response, line6, moving, stopped, silent>>
    \/ c = "check_drive" /\ Respond(1) /\ UNCHANGED <<line6, moving, stopped, silent>>
    \/ c \in {"seek", "calibrate"}
       /\ RaiseIrq6 /\ silent' = ~ irq_enabled /\ UNCHANGED <<response, moving, stopped>>
    \/ c = "read_id"
       /\ Respond(7) /\ RaiseIrq6 /\ silent' = ~ irq_enabled /\ UNCHANGED <<moving, stopped>>
    \/ c = "transfer" /\ DoSector

\* port3F5_write: a byte of the command being received, or a new command.
Port3F5Write(c) ==
    IF bytes_expecting > 0
    THEN /\ bytes_expecting' = bytes_expecting - 1
         /\ UNCHANGED next_command
         /\ IF bytes_expecting = 1 THEN Execute(next_command)
            ELSE UNCHANGED <<response, line6, moving, stopped, silent>>
    ELSE /\ bytes_expecting' = Parameters[c]
         /\ IF Parameters[c] = 0
            THEN Respond(ResultBytes(c)) /\ UNCHANGED next_command
            ELSE next_command' = c /\ UNCHANGED response
         /\ UNCHANGED <<line6, moving, stopped, silent>>

\* A mutant of Port3F5Read: the line stays up.
Port3F5ReadOnly == response_index' = response_index + 1 /\ UNCHANGED <<response_length, line6>>

Port3F5Read ==
    IF response_index < response_length
    THEN DeviceLowerIrq6 /\ response_index' = response_index + 1 /\ UNCHANGED response_length
    ELSE UNCHANGED <<response, line6>>

\* done: the image has answered, or taken what was written.
TransferDone ==
    /\ stopped = "no" /\ moving > 0
    /\ moving' = moving - 1
    /\ Respond(7) /\ RaiseIrq6
    /\ silent' = (silent \/ ~ irq_enabled)
    /\ UNCHANGED <<command_state, settings, floppy_driver, stopped>>

-----------------------------------------------------------------------------
(* The driver.  It sends only what the controller implements, waits for    *)
(* its interrupts, and gives up only when none will come.                  *)

DriverAlive == stopped = "no"

\* What it does when the last byte of a command is written.
AfterSending(c) ==
    /\ doing' = c
    /\ stage' = IF c \in Announced THEN "wait" ELSE IF ResultBytes(c) > 0 THEN "read" ELSE "idle"
    /\ left' = IF c \in Announced THEN 0 ELSE ResultBytes(c)

SendCommand ==
    /\ DriverAlive /\ stage = "idle" /\ running
    /\ \E c \in Commands :
        /\ Port3F5Write(c)
        /\ IF Parameters[c] > 0 THEN doing' = c /\ stage' = "send" /\ left' = Parameters[c]
           ELSE AfterSending(c)
    /\ UNCHANGED settings

SendParameter ==
    /\ DriverAlive /\ stage = "send"
    /\ Port3F5Write(doing)
    /\ IF left > 1 THEN left' = left - 1 /\ UNCHANGED <<doing, stage>> ELSE AfterSending(doing)
    /\ UNCHANGED settings

\* After a seek, a calibration or a reset it asks what the interrupt was for.
TakeInterrupt6 ==
    /\ DriverAlive /\ edge6
    /\ edge6' = FALSE
    /\ IF stage # "wait" THEN UNCHANGED <<doing, stage, left, silent>>
       ELSE /\ stage' = (IF ResultBytes(doing) > 0 THEN "read" ELSE "sense")
            /\ left' = ResultBytes(doing) /\ silent' = FALSE
            /\ UNCHANGED doing
    /\ UNCHANGED <<command_state, response, settings, moving, irq6, stopped>>

SendSense ==
    /\ DriverAlive /\ stage = "sense"
    /\ Port3F5Write("sense") /\ AfterSending("sense")
    /\ UNCHANGED settings

ReadResult ==
    /\ DriverAlive /\ stage = "read"
    /\ Port3F5Read
    /\ left' = left - 1
    /\ stage' = (IF left = 1 THEN "idle" ELSE "read") /\ doing' = (IF left = 1 THEN "nothing" ELSE doing)
    /\ UNCHANGED <<command_state, settings, moving, stopped, silent>>

\* port3F2_write: out of reset, with an interrupt whatever bit 3 says.
LeaveReset ==
    /\ DriverAlive /\ stage = "idle" /\ ~ running
    /\ running' = TRUE /\ irq_enabled' \in BOOLEAN
    /\ DeviceRaiseIrq6
    /\ doing' = "reset" /\ stage' = "wait" /\ left' = 0
    /\ UNCHANGED <<command_state, response, fda_image, channel_pagehi, moving, stopped, silent>>

\* port3F2_write into reset.  Nothing else is reset.
EnterReset ==
    /\ DriverAlive /\ stage = "idle" /\ running
    /\ running' = FALSE
    /\ UNCHANGED <<command_state, response, irq_enabled, fda_image, channel_pagehi, moving, line6,
                   floppy_driver, stopped, silent>>

\* port3F4_write with bit 7: an interrupt, and nothing else that is modelled.
ResetByDsr ==
    /\ DriverAlive /\ stage = "idle" /\ running
    /\ DeviceRaiseIrq6
    /\ doing' = "reset" /\ stage' = "wait" /\ left' = 0
    /\ UNCHANGED <<command_state, response, settings, moving, stopped, silent>>

\* It sees in the status register that results are offered.
SeeResults ==
    /\ DriverAlive /\ stage = "wait" /\ silent /\ response_index < response_length
    /\ stage' = "read" /\ left' = ResultBytes(doing) /\ silent' = FALSE
    /\ UNCHANGED <<command_state, response, settings, moving, line6, doing, stopped>>

GiveUp ==
    /\ DriverAlive /\ stage = "wait" /\ silent /\ response_index = response_length
    /\ stage' = "idle" /\ doing' = "nothing" /\ left' = 0
    /\ silent' = FALSE
    /\ running' = FALSE
    /\ UNCHANGED <<command_state, response, irq_enabled, fda_image, channel_pagehi, moving, line6, stopped>>

-----------------------------------------------------------------------------
(* The host.                                                               *)

\* eject_fda, set_fda.
ChangeImage ==
    /\ fda_image' \in BOOLEAN
    /\ UNCHANGED <<command_state, response, running, irq_enabled, channel_pagehi, moving, line6,
                   floppy_driver, stopped, silent>>

\* get_state and set_state in a new page: next_command is not saved, transfers the
\* image has not answered are lost, and the state may have been written by a build
\* whose DMA controller has high page bytes.
FloppyRestored ==
    /\ DriverAlive
    /\ next_command' = "undefined"
    /\ DmaRestored
    /\ moving' = 0
    /\ silent' = (silent \/ moving > 0)
    /\ UNCHANGED <<bytes_expecting, response, running, irq_enabled, fda_image, line6, floppy_driver, stopped>>

FloppyNext ==
    \/ SendCommand \/ SendParameter \/ SendSense \/ TakeInterrupt6 \/ ReadResult
    \/ LeaveReset \/ EnterReset \/ ResetByDsr \/ SeeResults \/ GiveUp
    \/ TransferDone \/ ChangeImage \/ FloppyRestored

FloppySpec == FloppyInit /\ [][FloppyNext]_floppy_vars

-----------------------------------------------------------------------------
(* Properties.                                                             *)

\* The controller expects the bytes the driver is about to send, and offers the
\* results it is about to read, through images changed, states restored and
\* commands that end with no interrupt.
InStep ==
    DriverAlive =>
        /\ bytes_expecting = IF stage = "send" THEN left ELSE 0
        /\ stage # "wait" => response_length - response_index = IF stage = "read" THEN left ELSE 0

\* A driver that waits has an interrupt to come: requested, or when the image
\* answers, or else the command is one of those that end without (no image, a
\* transfer outside of it or lost, interrupts disabled).
WaitServed == DriverAlive /\ stage = "wait" => edge6 \/ moving > 0 \/ silent

\* do_read, "read data, write to memory": a transfer asked of the DMA controller
\* is made.
TransfersAreMade == stopped # "transfer"

=============================================================================
