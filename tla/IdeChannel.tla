------------------------------ MODULE IdeChannel ------------------------------
(***************************************************************************)
(* One IDE channel of ide.ts: a master and a slave interface that share    *)
(* the task file writes, the interrupt line and the bus master.  The guest *)
(* programs the registers in any order it likes; the disk image answers    *)
(* reads at once (cached blocks) or some time later, when the guest may    *)
(* have reset the drive, started another command or restored a state.      *)
(*                                                                         *)
(* Data is counted in units: a sector, or a whole packet command. The      *)
(* sector and cylinder registers are one number, lba, the way the 48 bit   *)
(* commands hold and advance it (after a 28 bit one ata_advance also       *)
(* copies the low bits of the next sector into the head register); a CD    *)
(* drive takes its byte count limit from there. What a buffer holds is     *)
(* described by the first sector that was read into it. The guest sends    *)
(* the commands that read and write sectors to disks, and packets to CD    *)
(* drives.                                                                 *)
(***************************************************************************)
EXTENDS Integers, FiniteSets

CONSTANTS Drives,      \* a subset of {"master", "slave"}
          Cds,         \* the drives that are CD drives (is_atapi)
          Empty,       \* the drives without an image (no buffer)
          Sectors,     \* the size of an image
          Counts,      \* the sector counts the guest asks for
          CountWrap,   \* the sector count register counts modulo this (256)
          LbaWrap,     \* the sector and cylinder registers, modulo this (2^28)
          Offered,     \* the commands the guest uses
          Prdts,       \* addresses of descriptor tables
          Ids,         \* the values of last_io_id: bounds the reads under way
          None

ASSUME DriveAssumption == /\ "master" \in Drives /\ Drives \subseteq {"master", "slave"}
                          /\ Cds \subseteq Drives /\ Empty \subseteq Drives
ASSUME CountAssumption == /\ Sectors \in Nat \ {0} /\ CountWrap \in Nat \ {0}
                          /\ LbaWrap \in Nat \ {0} /\ Sectors < LbaWrap
                          /\ Counts \subseteq 1 .. CountWrap
ASSUME NoneAssumption == None \notin Nat /\ None \notin Prdts

VARIABLES drive,       \* the registers of each interface
          in_progress, \* in_progress_io_ids of each interface
          cancelled,   \* cancelled_io_ids of each interface
          calls,       \* the buffer.get callbacks that are still to come
          selected,    \* current_interface
          nien,        \* device_control, bit 1: interrupts disabled
          irq,         \* external: the line device_raise_irq and device_lower_irq drive
          dma_start,   \* dma_command, bit 0
          dma_active,  \* dma_status, bit 0
          dma_irq,     \* dma_status, bit 2
          prdt,        \* prdt_addr
          mem,         \* history: what the last bus master read put into memory
          wrote,       \* history: the last write to the image
          saved        \* the registers of the last get_state

registers == <<drive, selected, nien, dma_start, dma_active, dma_irq, prdt>>
ios == <<in_progress, cancelled, calls>>
history == <<mem, wrote>>
vars == <<registers, ios, irq, history, saved>>

\* 0x50, 0x58, 0x80|0x40, 0x41, 0x51, 0xFF and 0.
Statuses == {"ready", "drq", "busy", "abort", "check", "fault", "zero"}
BsySet(status) == status \in {"busy", "fault"}
DrqSet(status) == status \in {"drq", "fault"}

\* The commands, by what ata_command does with them.
ReadCommands == {"read", "read_multiple"}
WriteCommands == {"write", "write_multiple", "write_multiple_ext"}
DmaCommands == {"read_dma", "write_dma"}
Commands == ReadCommands \cup WriteCommands \cup DmaCommands
            \cup {"reset", "nondata", "unsupported", "set_multiple", "packet", "identify"}

DriveState == [status : Statuses, cmd : Commands \cup {None},
               count : Nat, lba : Nat, multiple : Nat \cup {None},
               ptr : Nat, end : Nat \cup {None}, len : Nat,
               data : Nat \cup {None}, write_dest : Nat]

\* A buffer.get under way: what its callback will do, and with what.  late is
\* history: the drive has been reset since.
Calls == [op : {"pio", "dma", "atapi", "atapi_dma"}, start : Nat, n : Nat,
          single : BOOLEAN, limit : Nat, prdt : Prdts, late : BOOLEAN]

ASSUME NoCallIsNone == None \notin Calls
ASSUME NoCommandIsNone == None \notin Commands

\* A saved state holds registers of the same types.
SavedOK ==
    saved # None =>
        /\ saved.drive \in [Drives -> DriveState] /\ saved.selected \in Drives
        /\ saved.nien \in BOOLEAN /\ saved.irq \in BOOLEAN /\ saved.dma_start \in BOOLEAN
        /\ saved.dma_active \in BOOLEAN /\ saved.dma_irq \in BOOLEAN
        /\ saved.prdt \in Prdts

TypeOK ==
    /\ drive \in [Drives -> DriveState]
    /\ in_progress \in [Drives -> SUBSET Ids]
    /\ cancelled \in [Drives -> SUBSET Ids]
    /\ calls \in [Drives -> [Ids -> Calls \cup {None}]]
    /\ selected \in Drives
    /\ nien \in BOOLEAN /\ irq \in BOOLEAN /\ dma_start \in BOOLEAN
    /\ dma_active \in BOOLEAN /\ dma_irq \in BOOLEAN
    /\ prdt \in Prdts
    /\ SavedOK

-----------------------------------------------------------------------------
(* The registers of an interface, as functions of its state.               *)

InitialRegisters == [status |-> "ready", cmd |-> None, count |-> 0, lba |-> 0,
                     multiple |-> None, ptr |-> 0, end |-> 0, len |-> 0,
                     data |-> None, write_dest |-> 0]

Init ==
    /\ drive = [d \in Drives |-> InitialRegisters]
    /\ in_progress = [d \in Drives |-> {}]
    /\ cancelled = [d \in Drives |-> {}]
    /\ calls = [d \in Drives |-> [id \in Ids |-> None]]
    /\ selected = "master"
    /\ nien = TRUE /\ irq = FALSE
    /\ dma_start = FALSE /\ dma_active = FALSE /\ dma_irq = FALSE
    /\ prdt \in Prdts
    /\ mem = None /\ wrote = None /\ saved = None

Least(a, b) == IF a < b THEN a ELSE b

Reset(r, cd) == [r EXCEPT !.status = IF cd THEN "zero" ELSE "check", !.count = 1, !.lba = 1]

\* get_count: zero stands for the largest count.
NumSectors(r) == IF r.count = 0 THEN CountWrap ELSE r.count

InDisk(r) == r.lba + NumSectors(r) <= Sectors

\* A mutant of Advance: the task file stays at the last sector.
AdvanceOneLess(r, n) == [r EXCEPT !.count = (@ - n) % CountWrap, !.lba = (@ + n - 1) % LbaWrap]
Advance(r, n) == [r EXCEPT !.count = (@ - n) % CountWrap, !.lba = (@ + n) % LbaWrap]

\* A mutant of DataAllocate: the pointer is not reset.
DataAllocateKeepsPointer(r, n) == [r EXCEPT !.len = n]

DataAllocate(r, n) == [r EXCEPT !.len = n, !.ptr = 0]

\* sectors_per_drq is undefined until SET MULTIPLE, and data_end is not a number then.
MultipleEnd(r, n) == IF r.multiple = None THEN None ELSE Least(n, r.multiple)

FirstEnd(r, n, single) == IF single THEN 1 ELSE MultipleEnd(r, n)

\* A read for PIO: the first block is ready.
AtaArrived(r, c) ==
    Advance([DataAllocate(r, c.n) EXCEPT !.status = "drq", !.data = c.start,
                                         !.end = FirstEnd(r, c.n, c.single)],
            IF c.single THEN 1 ELSE Least(c.n, 128))

AtapiArrived(r, c) ==
    LET end == Least(c.limit, c.n)
    IN [DataAllocate(r, c.n) EXCEPT !.status = "drq", !.data = c.start,
                                    !.end = end, !.lba = end]

\* A mutant of PacketReadEnd: the first block is taken for the last.
PacketReadEndEarly(r) == [r EXCEPT !.status = "ready"]

\* read_end: the guest has taken all that was ready.
PacketReadEnd(r) ==
    IF r.end = r.len THEN [r EXCEPT !.status = "ready"]
    ELSE IF r.end + r.lba > r.len
         THEN [r EXCEPT !.status = "drq", !.lba = (r.len - r.end) % LbaWrap, !.end = r.len]
         ELSE [r EXCEPT !.status = "drq", !.end = @ + r.lba]

NextBlock(r) == IF r.cmd = "read_multiple" THEN MultipleEnd(r, r.len - r.end) ELSE 1

AtaReadEnd(r) ==
    IF r.ptr >= r.len THEN [r EXCEPT !.status = "ready"]
    ELSE LET n == NextBlock(r)
         IN IF n = None THEN [r EXCEPT !.status = "drq", !.end = None]
            ELSE [Advance(r, n) EXCEPT !.end = @ + n, !.status = "drq"]

ReadEnd(r) == IF r.cmd = "packet" THEN PacketReadEnd(r) ELSE AtaReadEnd(r)

\* A mutant of ReadEndInterrupts: the next block is not announced.
ReadEndSilent(r) == FALSE

\* Whether read_end raises an interrupt: not after the last block of an ATA read.
ReadEndInterrupts(r) == r.cmd = "packet" \/ r.ptr < r.len

InBuffer(r) == r.end # None /\ r.ptr < r.end

-----------------------------------------------------------------------------
(* Interrupts, reads of the image.                                         *)

\* push_irq; line is the state of the line before it.
PushIrq(line) == /\ irq' = (line \/ ~ nien)
                 /\ dma_irq' = (dma_irq \/ ~ nien)

NoIrq(line) == irq' = line /\ UNCHANGED dma_irq

\* The callback of read_buffer, on registers r of drive d.  atOnce: the image had
\* the answer, and the handler that asked for it goes on afterwards.
Arrive(d, r, c, line, atOnce) ==
    \/ /\ c.op = "pio"
       /\ drive' = [drive EXCEPT ![d] = AtaArrived(r, c)]
       /\ PushIrq(line)
       /\ UNCHANGED <<dma_active, mem>>
    \/ /\ c.op = "atapi"
       /\ drive' = [drive EXCEPT ![d] = AtapiArrived(r, c)]
       /\ PushIrq(line)
       /\ UNCHANGED <<dma_active, mem>>
    \/ /\ c.op = "dma"
       /\ drive' = [drive EXCEPT ![d] = [Advance(r, c.n) EXCEPT !.status = "ready", !.cmd = None]]
       /\ dma_active' = FALSE
       /\ mem' = [start |-> c.start, n |-> c.n]
       /\ PushIrq(line)
    \* The bus master may have been started before or after the data arrives; in
    \* the second case atapi_handle, but no later callback, announces the data.
    \/ /\ c.op = "atapi_dma" /\ dma_active
       /\ drive' = [drive EXCEPT ![d] = [DataAllocate(r, c.n) EXCEPT !.status = "ready", !.data = c.start]]
       /\ dma_active' = FALSE
       /\ mem' = [start |-> c.start, n |-> c.n]
       /\ PushIrq(line)
    \/ /\ c.op = "atapi_dma" /\ ~ dma_active
       /\ drive' = [drive EXCEPT ![d] = [DataAllocate(r, c.n) EXCEPT !.status = "drq", !.data = c.start]]
       /\ IF atOnce THEN PushIrq(line) ELSE NoIrq(line)
       /\ UNCHANGED <<dma_active, mem>>

\* read_buffer: the image answers at once, or its callback is still to come.
Outstanding(d) == {id \in Ids : calls[d][id] # None}

StartCall(d, c) ==
    \E id \in Ids \ Outstanding(d) :
        /\ calls' = [calls EXCEPT ![d][id] = c]
        /\ in_progress' = [in_progress EXCEPT ![d] = @ \cup {id}]
        /\ UNCHANGED cancelled

ReadBuffer(d, r, c, line) ==
    \/ Arrive(d, r, c, line, TRUE) /\ UNCHANGED ios
    \/ /\ StartCall(d, c)
       /\ drive' = [drive EXCEPT ![d] = r]
       /\ NoIrq(line)
       /\ UNCHANGED <<dma_active, mem>>

Call(op, start, n) ==
    [op |-> op, start |-> start, n |-> n, single |-> TRUE,
     limit |-> 0, prdt |-> prdt, late |-> FALSE]

\* A callback comes: it is dropped if its read was cancelled.
Callback(d, id) ==
    /\ calls[d][id] # None
    /\ calls' = [calls EXCEPT ![d][id] = None]
    /\ IF id \in cancelled[d]
       THEN /\ cancelled' = [cancelled EXCEPT ![d] = @ \ {id}]
            /\ UNCHANGED <<in_progress, drive, dma_active, mem>>
            /\ NoIrq(irq)
       ELSE /\ in_progress' = [in_progress EXCEPT ![d] = @ \ {id}]
            /\ UNCHANGED cancelled
            /\ Arrive(d, drive[d], calls[d][id], irq, FALSE)
    /\ UNCHANGED <<selected, nien, dma_start, prdt, wrote, saved>>

\* Mutants of CancelIo: nothing is cancelled; what is cancelled stays in progress.
CancelNothing(ds) ==
    /\ calls' = [d \in Drives |-> [id \in Ids |->
                   IF d \in ds /\ calls[d][id] # None THEN [calls[d][id] EXCEPT !.late = TRUE]
                                                     ELSE calls[d][id]]]
    /\ UNCHANGED <<in_progress, cancelled>>

CancelKeepsInProgress(ds) ==
    /\ cancelled' = [d \in Drives |-> IF d \in ds THEN cancelled[d] \cup in_progress[d] ELSE cancelled[d]]
    /\ UNCHANGED <<in_progress, calls>>

\* cancel_io_operations of the drives ds.
CancelIo(ds) ==
    /\ cancelled' = [d \in Drives |-> IF d \in ds THEN cancelled[d] \cup in_progress[d] ELSE cancelled[d]]
    /\ in_progress' = [d \in Drives |-> IF d \in ds THEN {} ELSE in_progress[d]]
    /\ calls' = [d \in Drives |-> [id \in Ids |->
                   IF d \in ds /\ calls[d][id] # None THEN [calls[d][id] EXCEPT !.late = TRUE]
                                                     ELSE calls[d][id]]]

-----------------------------------------------------------------------------
(* Task file and control registers.                                        *)

\* The task file registers are written on both interfaces.
WriteTaskFile(count, lba) ==
    /\ drive' = [d \in Drives |-> [drive[d] EXCEPT !.count = count % CountWrap, !.lba = lba]]
    /\ UNCHANGED <<selected, nien, dma_start, dma_active, dma_irq, prdt, ios, irq, history, saved>>

Select(d) ==
    /\ selected' = d
    /\ UNCHANGED <<drive, nien, dma_start, dma_active, dma_irq, prdt, ios, irq, history, saved>>

\* Reading the status register lowers the interrupt line.
ReadStatus ==
    /\ irq' = FALSE
    /\ UNCHANGED <<registers, ios, history, saved>>

\* write_control without the reset bit, and with it.
WriteControl(disable) ==
    /\ nien' = disable
    /\ UNCHANGED <<drive, selected, dma_start, dma_active, dma_irq, prdt, ios, irq, history, saved>>

ControlReset(disable) ==
    /\ irq' = FALSE
    /\ drive' = [d \in Drives |-> Reset(drive[d], d \in Cds)]
    /\ CancelIo(Drives)
    /\ nien' = disable
    /\ UNCHANGED <<selected, dma_start, dma_active, dma_irq, prdt, history, saved>>

-----------------------------------------------------------------------------
(* ata_command of the selected interface.  Every command lowers the line   *)
(* first and stores itself in current_command.                             *)

Accepts(d) == d = selected /\ d \notin Empty

Issued(d, cmd) == [drive[d] EXCEPT !.cmd = cmd]

\* The part of the state no command changes.
Elsewhere == UNCHANGED <<selected, nien, dma_start, prdt, wrote, saved>>

SetDrive(d, r) == drive' = [drive EXCEPT ![d] = r]

CommandAborted(d) ==
    /\ d = selected /\ d \in Empty
    /\ SetDrive(d, [drive[d] EXCEPT !.status = "abort"])
    /\ PushIrq(FALSE)
    /\ UNCHANGED <<ios, dma_active, mem>> /\ Elsewhere

CommandReset(d) ==
    /\ Accepts(d)
    /\ SetDrive(d, Reset([Issued(d, "reset") EXCEPT !.ptr = 0, !.end = 0, !.len = 0], d \in Cds))
    /\ CancelIo({d})
    /\ PushIrq(FALSE)
    /\ UNCHANGED <<dma_active, mem>> /\ Elsewhere

\* Commands without data.  Reading the native maximum leaves the last sector in
\* the registers; unsupported commands abort, one of them without interrupt.
CommandNondata(d) ==
    /\ Accepts(d)
    /\ SetDrive(d, [Issued(d, "nondata") EXCEPT !.status = "ready"])
    /\ PushIrq(FALSE)
    /\ UNCHANGED <<ios, dma_active, mem>> /\ Elsewhere

CommandNativeMax(d) ==
    /\ Accepts(d)
    /\ SetDrive(d, [Issued(d, "nondata") EXCEPT !.status = "ready", !.lba = Sectors - 1])
    /\ PushIrq(FALSE)
    /\ UNCHANGED <<ios, dma_active, mem>> /\ Elsewhere

CommandUnsupported(d) ==
    /\ Accepts(d)
    /\ SetDrive(d, [Issued(d, "unsupported") EXCEPT !.status = "abort"])
    /\ PushIrq(FALSE) \/ NoIrq(FALSE)
    /\ UNCHANGED <<ios, dma_active, mem>> /\ Elsewhere

CommandSetMultiple(d) ==
    /\ Accepts(d)
    /\ SetDrive(d, [Issued(d, "set_multiple") EXCEPT !.status = "ready", !.multiple = drive[d].count])
    /\ PushIrq(FALSE)
    /\ UNCHANGED <<ios, dma_active, mem>> /\ Elsewhere

\* The packet command on a disk does nothing at all.
CommandPacket(d) ==
    /\ Accepts(d)
    /\ IF d \in Cds
       THEN /\ SetDrive(d, [DataAllocate(Issued(d, "packet"), 1)
                              EXCEPT !.status = "drq", !.end = 1, !.data = None])
            /\ PushIrq(FALSE)
       ELSE SetDrive(d, Issued(d, "packet")) /\ NoIrq(FALSE)
    /\ UNCHANGED <<ios, dma_active, mem>> /\ Elsewhere

\* identify: create_identify_packet has nothing to say about a slave.
CommandIdentify(d) ==
    /\ Accepts(d)
    /\ SetDrive(d, IF d = "slave"
                   THEN [DataAllocate(Issued(d, "identify"), 0) EXCEPT !.status = "drq", !.data = None]
                   ELSE [DataAllocate(Issued(d, "identify"), 1)
                          EXCEPT !.status = "drq", !.end = 1, !.data = None])
    /\ PushIrq(FALSE)
    /\ UNCHANGED <<ios, dma_active, mem>> /\ Elsewhere

OutsideOfDisk(d, cmd) ==
    /\ Accepts(d) /\ d \notin Cds
    /\ cmd \in ReadCommands \cup WriteCommands \cup DmaCommands
    /\ ~ InDisk(drive[d])
    /\ SetDrive(d, [Issued(d, cmd) EXCEPT !.status = "fault"])
    /\ PushIrq(FALSE)
    /\ UNCHANGED <<ios, dma_active, mem>> /\ Elsewhere

\* ata_read_sectors
CommandRead(d, cmd) ==
    /\ Accepts(d) /\ d \notin Cds /\ cmd \in ReadCommands
    /\ InDisk(drive[d])
    /\ ReadBuffer(d, [Issued(d, cmd) EXCEPT !.status = "busy"],
                  [Call("pio", drive[d].lba, NumSectors(drive[d])) EXCEPT !.single = (cmd = "read")],
                  FALSE)
    /\ Elsewhere

\* ata_write_sectors: no interrupt before the first block.
CommandWrite(d, cmd) ==
    /\ Accepts(d) /\ d \notin Cds /\ cmd \in WriteCommands
    /\ InDisk(drive[d])
    /\ LET n == NumSectors(drive[d])
       IN SetDrive(d, [DataAllocate(Issued(d, cmd), n)
                         EXCEPT !.status = "drq", !.end = FirstEnd(drive[d], n, cmd = "write"),
                                !.write_dest = drive[d].lba, !.data = None])
    /\ NoIrq(FALSE)
    /\ UNCHANGED <<ios, dma_active, mem>> /\ Elsewhere

\* ata_read_sectors_dma, ata_write_sectors_dma: nothing moves before the bus
\* master is started.
CommandDma(d, cmd) ==
    /\ Accepts(d) /\ d \notin Cds /\ cmd \in DmaCommands
    /\ InDisk(drive[d])
    /\ SetDrive(d, [Issued(d, cmd) EXCEPT !.status = "drq"])
    /\ dma_active' = TRUE
    /\ NoIrq(FALSE)
    /\ UNCHANGED <<ios, mem>> /\ Elsewhere

-----------------------------------------------------------------------------
(* The data port.                                                          *)

\* read_data: one unit.  Past the end of the block it returns zero and moves a
\* pointer that counts again only after a data_allocate.
ReadData ==
    /\ InBuffer(drive[selected])
    /\ LET r == [drive[selected] EXCEPT !.ptr = @ + 1]
       IN IF r.ptr >= r.end
          THEN /\ SetDrive(selected, ReadEnd(r))
               /\ IF ReadEndInterrupts(r) THEN PushIrq(irq) ELSE NoIrq(irq)
          ELSE SetDrive(selected, r) /\ NoIrq(irq)
    /\ UNCHANGED <<selected, nien, dma_start, dma_active, prdt, ios, history, saved>>

\* A mutant of AllGiven: every block is stored as if it were the last.
AllGivenAtOnce(r) == r.ptr = r.end

\* write_end: the command has all its data.
AllGiven(r) == r.ptr >= r.len

\* write_data_port for ATA commands: one sector, and write_end after a block.
\* do_write advances the task file by the whole command and stores the data.
WriteData ==
    /\ InBuffer(drive[selected])
    /\ drive[selected].cmd # "packet"
    /\ LET r == [drive[selected] EXCEPT !.ptr = @ + 1]
       IN CASE r.ptr = r.end /\ AllGiven(r) ->
                    /\ SetDrive(selected, Advance([r EXCEPT !.status = "ready"], r.len))
                    /\ wrote' = [start |-> r.write_dest, n |-> r.len]
                    /\ PushIrq(irq)
            [] r.ptr = r.end /\ ~ AllGiven(r) ->
                    /\ SetDrive(selected, [r EXCEPT !.status = "drq", !.end = @ + 1])
                    /\ PushIrq(irq)
                    /\ UNCHANGED wrote
            [] OTHER -> SetDrive(selected, r) /\ NoIrq(irq) /\ UNCHANGED wrote
    /\ UNCHANGED <<selected, nien, dma_start, dma_active, prdt, ios, mem, saved>>

\* The last byte of a packet: atapi_handle.
PacketComplete(d) ==
    /\ d = selected
    /\ drive[d].cmd = "packet"
    /\ InBuffer(drive[d]) /\ drive[d].ptr + 1 = drive[d].end

\* A packet command that answers with n units; DRQ goes when there are none.
PacketData(d, n) ==
    /\ PacketComplete(d)
    /\ SetDrive(d, [drive[d] EXCEPT !.ptr = 0, !.len = n, !.end = n, !.data = None,
                                    !.status = IF n = 0 THEN "ready" ELSE "drq"])
    /\ PushIrq(irq)
    /\ UNCHANGED <<selected, nien, dma_start, dma_active, prdt, ios, history, saved>>

PacketUnsupported(d) ==
    /\ PacketComplete(d)
    /\ SetDrive(d, [drive[d] EXCEPT !.ptr = 0, !.len = 0, !.status = "check"])
    /\ PushIrq(irq)
    /\ UNCHANGED <<selected, nien, dma_start, dma_active, prdt, ios, history, saved>>

\* atapi_read; the cylinder registers hold the guest's byte count limit.
PacketRead(d, start, n) ==
    /\ PacketComplete(d)
    /\ LET r == [drive[d] EXCEPT !.ptr = 0, !.len = 0, !.lba = 0]
           len == Least(n, Sectors - start)
       IN CASE start >= Sectors -> /\ SetDrive(d, [r EXCEPT !.status = "fault"])
                                   /\ PushIrq(irq) /\ UNCHANGED <<ios, dma_active, mem>>
            [] start < Sectors /\ n = 0 -> /\ SetDrive(d, [r EXCEPT !.status = "ready"])
                                           /\ PushIrq(irq) /\ UNCHANGED <<ios, dma_active, mem>>
            [] OTHER -> ReadBuffer(d, [r EXCEPT !.status = "busy"],
                                   [Call("atapi", start, len) EXCEPT !.limit = Least(drive[d].lba, n)], irq)
    /\ UNCHANGED <<selected, nien, dma_start, prdt, wrote, saved>>

\* atapi_read_dma: the length is not cut at the end of the disk.
PacketReadDma(d, start, n) ==
    /\ PacketComplete(d)
    /\ LET r == [drive[d] EXCEPT !.ptr = 0]
       IN IF start >= Sectors
          THEN /\ SetDrive(d, [r EXCEPT !.status = "fault"])
               /\ PushIrq(irq) /\ UNCHANGED <<ios, dma_active, mem>>
          ELSE ReadBuffer(d, [r EXCEPT !.status = "busy"], Call("atapi_dma", start, n), irq)
    /\ UNCHANGED <<selected, nien, dma_start, prdt, wrote, saved>>

-----------------------------------------------------------------------------
(* The bus master.                                                         *)

SetPrdt(a) ==
    /\ prdt' = a
    /\ UNCHANGED <<drive, selected, nien, dma_start, dma_active, dma_irq, ios, irq, history, saved>>

ClearDmaStatus ==
    /\ dma_irq' = FALSE
    /\ UNCHANGED <<drive, selected, nien, dma_start, dma_active, prdt, ios, irq, history, saved>>

DmaStop ==
    /\ dma_start
    /\ dma_start' = FALSE /\ dma_active' = FALSE
    /\ UNCHANGED <<drive, selected, nien, dma_irq, prdt, ios, irq, history, saved>>

DmaStart == ~ dma_start /\ dma_start' = TRUE

\* do_ata_read_sectors_dma: range and count come from the task file, again.
DmaStartRead(d) ==
    /\ d = selected /\ drive[d].cmd = "read_dma"
    /\ DmaStart
    /\ LET c == Call("dma", drive[d].lba, NumSectors(drive[d]))
       IN \/ Arrive(d, drive[d], c, irq, TRUE) /\ UNCHANGED ios
          \/ StartCall(d, c) /\ dma_active' = TRUE /\ NoIrq(irq) /\ UNCHANGED <<drive, mem>>
    /\ UNCHANGED <<selected, nien, prdt, wrote, saved>>

\* do_ata_write_sectors_dma: buffer.set answers at once.
DmaStartWrite(d) ==
    /\ d = selected /\ drive[d].cmd = "write_dma"
    /\ DmaStart
    /\ LET n == NumSectors(drive[d])
       IN /\ wrote' = [start |-> drive[d].lba, n |-> n]
          /\ SetDrive(d, [Advance(drive[d], n) EXCEPT !.status = "ready", !.cmd = None])
    /\ dma_active' = FALSE
    /\ PushIrq(irq)
    /\ UNCHANGED <<selected, nien, prdt, ios, mem, saved>>

\* do_atapi_dma: if the data has not arrived, its callback will do the transfer.
DmaStartPacket(d) ==
    /\ d = selected /\ drive[d].cmd = "packet"
    /\ DmaStart
    /\ IF DrqSet(drive[d].status)
       THEN /\ SetDrive(d, [drive[d] EXCEPT !.status = "ready"])
            /\ mem' = [start |-> drive[d].data, n |-> drive[d].len]
            /\ dma_active' = FALSE
            /\ PushIrq(irq)
       ELSE dma_active' = TRUE /\ NoIrq(irq) /\ UNCHANGED <<drive, mem>>
    /\ UNCHANGED <<selected, nien, prdt, ios, wrote, saved>>

\* Any other command: the assertion only logs.
DmaStartSpurious ==
    /\ drive[selected].cmd \notin DmaCommands \cup {"packet"}
    /\ DmaStart
    /\ dma_active' = TRUE
    /\ NoIrq(irq)
    /\ UNCHANGED <<drive, selected, nien, prdt, ios, history, saved>>

-----------------------------------------------------------------------------
(* Saved states: registers, and nothing about the reads under way.  The    *)
(* machine saves its interrupt lines and its memory with them.             *)

SaveState ==
    /\ saved' = [drive |-> drive, selected |-> selected, nien |-> nien, prdt |-> prdt,
                 dma_start |-> dma_start, dma_active |-> dma_active, dma_irq |-> dma_irq,
                 irq |-> irq, mem |-> mem, wrote |-> wrote]
    /\ UNCHANGED <<registers, ios, irq, history>>

RestoreState ==
    /\ saved # None
    /\ drive' = saved.drive /\ selected' = saved.selected /\ nien' = saved.nien
    /\ prdt' = saved.prdt /\ dma_start' = saved.dma_start
    /\ dma_active' = saved.dma_active /\ dma_irq' = saved.dma_irq
    /\ irq' = saved.irq /\ mem' = saved.mem /\ wrote' = saved.wrote
    /\ UNCHANGED <<ios, saved>>

-----------------------------------------------------------------------------
(* The guest, and the disk image.                                          *)

RegisterStep ==
    \/ \E count \in Counts, lba \in 0 .. Sectors : WriteTaskFile(count, lba)
    \/ \E d \in Drives : Select(d)
    \/ ReadStatus
    \/ \E disable \in BOOLEAN : WriteControl(disable) \/ ControlReset(disable)
    \/ \E a \in Prdts : SetPrdt(a)
    \/ ClearDmaStatus

CommandStep(d, cmd) ==
    \/ CommandAborted(d)
    \/ cmd = "reset" /\ CommandReset(d)
    \/ cmd = "nondata" /\ (CommandNondata(d) \/ CommandNativeMax(d))
    \/ cmd = "unsupported" /\ CommandUnsupported(d)
    \/ cmd = "set_multiple" /\ CommandSetMultiple(d)
    \/ cmd = "packet" /\ CommandPacket(d)
    \/ cmd = "identify" /\ CommandIdentify(d)
    \/ OutsideOfDisk(d, cmd) \/ CommandRead(d, cmd) \/ CommandWrite(d, cmd) \/ CommandDma(d, cmd)

PacketStep(d) ==
    \/ \E n \in 0 .. 1 : PacketData(d, n)
    \/ PacketUnsupported(d)
    \/ \E start \in 0 .. Sectors, n \in Counts \cup {0} : PacketRead(d, start, n)
    \/ \E start \in 0 .. Sectors, n \in Counts : PacketReadDma(d, start, n)

DataStep ==
    \/ ReadData \/ WriteData
    \/ \E d \in Drives : PacketStep(d)

DmaStep ==
    \/ DmaStop \/ DmaStartSpurious
    \/ \E d \in Drives : DmaStartRead(d) \/ DmaStartWrite(d) \/ DmaStartPacket(d)

DiskStep == \E d \in Drives, id \in Ids : Callback(d, id)

\* Everything but saving and restoring a state.
Step ==
    \/ RegisterStep \/ DataStep \/ DmaStep \/ DiskStep
    \/ \E d \in Drives, cmd \in Offered : CommandStep(d, cmd)

Next == Step \/ SaveState \/ RestoreState

Spec == Init /\ [][Next]_vars

\* A machine that is never saved or restored.
UninterruptedSpec == Init /\ [][Step]_vars

-----------------------------------------------------------------------------
(* Properties.                                                             *)

\* A read under way is either in progress or cancelled, never both, and there
\* is no entry without a read: what read_buffer asserts when a callback comes.
IoBookkeeping ==
    \A d \in Drives :
        /\ in_progress[d] \cap cancelled[d] = {}
        /\ in_progress[d] \cup cancelled[d] = Outstanding(d)

\* The answer to a read that was started before a reset changes no register,
\* no memory and no interrupt, whatever the guest has done since.
NoLateCompletion ==
    [][\A d \in Drives, id \in Ids :
          calls[d][id] # None /\ calls[d][id].late /\ calls'[d][id] = None
              => UNCHANGED <<registers, irq, history>>]_vars

=============================================================================
