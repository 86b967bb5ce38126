-------------------------------- MODULE Uart --------------------------------
(***************************************************************************)
(* A serial port, uart.ts, between the host, which sends bytes at any      *)
(* moment, and a driver of the kind every guest has: its handler asks      *)
(* what the interrupt is for until there is nothing left, and it switches  *)
(* the transmit interrupt on while it has bytes to send.  The interrupt    *)
(* controller takes a request at the edge of the line, so a line that is   *)
(* still high when the handler leaves is a port that is dead.              *)
(*                                                                         *)
(* Of the received bytes their number is kept, of the modem lines which    *)
(* are up and which have a delta bit.  The divisor, the line format and    *)
(* the scratch register are left out; modem status interrupts are never    *)
(* thrown, and neither are errors of the line.                             *)
(***************************************************************************)
EXTENDS Integers, FiniteSets

CONSTANTS MaxInput,  \* bounds the bytes received and not yet read
          MaxToSend, \* bounds the bytes the driver has to send
          Lines      \* of the modem: carrier detect, ring, data set ready, clear to send

ASSUME BoundAssumption == MaxInput \in Nat \ {0} /\ MaxToSend \in Nat

Enables == {"RDI", "THRI"}         \* UART_IER_..., of what is ever thrown
Causes == {"CTI", "RDI", "THRI"}   \* the bits of ints that are ever set

VARIABLES ints, ier, iir, fifo, dlab,
          input,                   \* its length
          data_ready,              \* lsr, UART_LSR_DATA_READY; the transmitter is always empty
          modem, delta,            \* modem_status, its high and its low half
          line,                    \* external: the level of the port's irq
          requested,               \* external: the edge the interrupt controller holds
          driver,                  \* external: where the driver is
          to_send,                 \* external: the bytes it has to send
          restored,                \* history: input is not the one the registers were saved with
          changed                  \* history: modem lines that changed since the status was read

cause == <<ints, ier, iir, line, requested>>
receiver == <<input, data_ready, restored>>
modem_status == <<modem, delta, changed>>
control == <<fifo, dlab>>
guest == <<driver, to_send>>
uart_vars == <<cause, receiver, modem_status, control, guest>>

UartTypeOK ==
    /\ ints \subseteq Causes /\ ier \subseteq Enables /\ iir \in Causes \cup {"NO_INT"}
    /\ fifo \in BOOLEAN /\ dlab \in BOOLEAN
    /\ input \in 0 .. MaxInput /\ data_ready \in BOOLEAN /\ restored \in BOOLEAN
    /\ modem \subseteq Lines /\ delta \subseteq Lines /\ changed \subseteq Lines
    /\ line \in BOOLEAN /\ requested \in BOOLEAN
    /\ driver \in {"idle", "identify", "receive", "transmit"} /\ to_send \in 0 .. MaxToSend

UartInit ==
    /\ ints = {"THRI"} /\ ier = {} /\ iir = "NO_INT" /\ line = FALSE /\ requested = FALSE
    /\ fifo = FALSE /\ dlab = FALSE
    /\ input = 0 /\ data_ready = FALSE /\ restored = FALSE
    /\ modem = {} /\ delta = {} /\ changed = {}
    /\ driver = "idle" /\ to_send = 0

-----------------------------------------------------------------------------
(* Interrupts.                                                             *)

\* The causes that may interrupt, the most urgent first.
Identified(causes, enables) ==
    IF "CTI" \in causes /\ "RDI" \in enables THEN "CTI"
    ELSE IF "RDI" \in causes /\ "RDI" \in enables THEN "RDI"
    ELSE IF "THRI" \in causes /\ "THRI" \in enables THEN "THRI"
    ELSE "NO_INT"

\* device_raise_irq and device_lower_irq: a request is an edge, and lowering the
\* line may withdraw it.
SetLine(high) ==
    /\ line' = high
    /\ IF high THEN requested' = (requested \/ ~ line)
               ELSE requested' \in {requested, FALSE}

CheckInterrupt(causes, enables) ==
    /\ ints' = causes /\ ier' = enables
    /\ iir' = Identified(causes, enables)
    /\ SetLine(iir' # "NO_INT")

-----------------------------------------------------------------------------
(* The host.                                                               *)

DataReceived ==
    /\ input < MaxInput
    /\ input' = input + 1 /\ data_ready' = TRUE /\ restored' = FALSE
    /\ CheckInterrupt(ints \cup {IF fifo THEN "CTI" ELSE "RDI"}, ier)
    /\ UNCHANGED <<modem_status, control, guest>>

Differ(s, t) == (s \ t) \cup (t \ s)

\* The delta bits after a status with these lines up and these delta bits.
Deltas(up, marked) == marked \cup Differ(modem, up) \cup delta

SetModemStatus(up, marked) ==
    /\ modem' = up
    /\ delta' = Deltas(up, marked)
    /\ changed' = changed \cup Differ(modem, up)
    /\ UNCHANGED <<cause, receiver, control, guest>>

\* ...-carrier-detect-input and its like, and the whole status, from the host
\* or from port 6.
ModemStatusInput ==
    \/ \E l \in Lines : \/ SetModemStatus(modem \cup {l}, delta \cup {l})
                        \/ SetModemStatus(modem \ {l}, delta \ {l})
    \/ \E up, marked \in SUBSET Lines : SetModemStatus(up, marked)

HostSide == DataReceived \/ ModemStatusInput

-----------------------------------------------------------------------------
(* The ports.                                                              *)

\* A mutant of WriteIer: the transmit interrupt is not thrown again.
WriteIerOnly(enables) == ~ dlab /\ CheckInterrupt(ints, enables)

\* Port 1: "re-throw THRI if it was masked".  The interrupt is thrown with the
\* old enables, under which THRI does nothing, and checked with the new.
WriteIer(enables) ==
    /\ ~ dlab
    /\ CheckInterrupt(IF "THRI" \in enables \ ier THEN ints \cup {"THRI"} ELSE ints, enables)

\* Port 0, written: the byte is sent at once.
WriteData == ~ dlab /\ CheckInterrupt(ints \cup {"THRI"}, ier)

\* A mutant of ReadData: input is looked at before the byte is taken out.
ReadDataLate ==
    /\ input' = IF input = 0 THEN 0 ELSE input - 1
    /\ IF input = 0
       THEN data_ready' = FALSE /\ restored' = FALSE /\ CheckInterrupt(ints \ {"CTI", "RDI"}, ier)
       ELSE UNCHANGED <<cause, data_ready, restored>>

\* Port 0, read, with DLAB off.
ReadData ==
    /\ input' = IF input = 0 THEN 0 ELSE input - 1
    /\ IF input' = 0
       THEN data_ready' = FALSE /\ restored' = FALSE /\ CheckInterrupt(ints \ {"CTI", "RDI"}, ier)
       ELSE UNCHANGED <<cause, data_ready, restored>>

\* Port 2, read: iir is what it was before.
ReadIir ==
    IF iir = "THRI" THEN CheckInterrupt(ints \ {"THRI"}, ier) ELSE UNCHANGED cause

ReadModemStatus ==
    /\ delta' = {} /\ changed' = {}
    /\ UNCHANGED <<modem, cause, receiver, control, guest>>

\* set_state: the registers of this moment, in a page that has any number of
\* bytes in input, which is neither saved nor emptied.
SerialRestored ==
    /\ input' \in 0 .. MaxInput
    /\ restored' = TRUE
    /\ UNCHANGED <<cause, data_ready, modem_status, control, guest>>

-----------------------------------------------------------------------------
(* The driver.                                                             *)

\* The handler takes one request; while the divisor is open it is kept out.
SerialInterrupt ==
    /\ driver = "idle" /\ requested /\ ~ dlab
    /\ driver' = "identify" /\ requested' = FALSE
    /\ UNCHANGED <<ints, ier, iir, line, receiver, modem_status, control, to_send>>

Identify ==
    /\ driver = "identify"
    /\ ReadIir
    /\ driver' = IF iir = "NO_INT" THEN "idle" ELSE "receive"
    /\ UNCHANGED <<receiver, modem_status, control, to_send>>

Receive ==
    /\ driver = "receive"
    /\ IF data_ready THEN ReadData /\ driver' = driver
       ELSE driver' = "transmit" /\ UNCHANGED <<cause, receiver>>
    /\ UNCHANGED <<modem_status, control, to_send>>

\* Some of the bytes, and with the last the interrupt is switched off.
Transmit ==
    /\ driver = "transmit"
    /\ \/ /\ "THRI" \in ier /\ to_send > 0
          /\ WriteData /\ to_send' = to_send - 1
          /\ driver' \in {"transmit", "identify"}
       \/ /\ "THRI" \in ier /\ to_send = 0
          /\ WriteIer(ier \ {"THRI"}) /\ driver' = "identify" /\ to_send' = to_send
       \/ /\ "THRI" \notin ier
          /\ driver' = "identify" /\ UNCHANGED <<cause, to_send>>
    /\ UNCHANGED <<receiver, modem_status, control>>

\* A byte to send, outside the handler; the interrupt is switched on.
StartTransmit ==
    /\ driver = "idle" /\ to_send < MaxToSend
    /\ to_send' = to_send + 1
    /\ IF "THRI" \in ier THEN ~ dlab /\ UNCHANGED cause ELSE WriteIer(ier \cup {"THRI"})
    /\ UNCHANGED <<receiver, modem_status, control, driver>>

\* Whatever else the guest does with the ports, a console that polls among it.
PortAccess ==
    /\ driver = "idle"
    /\ \/ /\ (\E enables \in SUBSET Enables : WriteIer(enables)) \/ WriteData
          /\ UNCHANGED <<receiver, modem_status, control, guest>>
       \/ ~ dlab /\ ReadData /\ UNCHANGED <<modem_status, control, guest>>
       \/ ReadModemStatus
       \/ fifo' \in BOOLEAN /\ UNCHANGED <<cause, receiver, modem_status, dlab, guest>>
       \/ dlab' = ~ dlab /\ UNCHANGED <<cause, receiver, modem_status, fifo, guest>>

UartNext ==
    \/ HostSide
    \/ SerialInterrupt \/ Identify \/ Receive \/ Transmit \/ StartTransmit
    \/ PortAccess
    \/ SerialRestored

UartSpec == UartInit /\ [][UartNext]_uart_vars

-----------------------------------------------------------------------------
(* Properties.                                                             *)

\* The port does not go dead: a driver that has left its handler with no request
\* pending finds a quiet line, nothing to read that it wants to be told of, and
\* nothing to send that waits for the transmit interrupt.  It is up to all of
\* CheckInterrupt, the write of ier and the read of iir, in any order with the
\* bytes of the host.
PortIsServed ==
    driver = "idle" /\ ~ requested =>
        /\ ~ line
        /\ "RDI" \in ier /\ ~ restored => input = 0
        /\ "THRI" \in ier => to_send = 0

\* The line status says that there is a byte exactly when input has one, so that
\* no byte is left behind and no zero is made up; a restored state, which lacks
\* the bytes, is right again from the next byte or the first empty read on.
DataReadyIsTrue == ~ restored => (data_ready <=> input > 0)

\* A modem line that changed since the guest looked still has its delta bit,
\* whatever the host says of this line and of others since.
DeltasKept == changed \subseteq delta

\* What the line and modem status registers say is true.
StatusIsTrue == DataReadyIsTrue /\ DeltasKept

=============================================================================
