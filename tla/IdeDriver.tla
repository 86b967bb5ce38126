------------------------------ MODULE IdeDriver ------------------------------
(***************************************************************************)
(* An IDE channel and the disk driver of the guest.  The driver is the     *)
(* part of the machine that is not in the sources: it does what the        *)
(* registers of ide.ts are made for, one register access at a time, while  *)
(* answers of the disk image arrive between any two of its steps.          *)
(*                                                                         *)
(* A request selects a drive, fills the task file, sends the command and   *)
(* waits for interrupts; it may lose patience, stop the bus master, reset  *)
(* the channel and go on to the next request.                              *)
(***************************************************************************)
EXTENDS IdeChannel

CONSTANTS Requests,  \* [drive, cmd, start, n, limit]: what the driver may ask for
          Patient    \* whether the driver always waits for an answer

VARIABLES pc,        \* what the driver does next
          req,       \* the request it works on
          taken,     \* the units transferred through the data port
          left,      \* the units left in the block that is transferred
          saved_driver

driver == <<pc, req, taken, left>>
allvars == <<vars, driver, saved_driver>>

\* The kinds of a request; a CD is read by packets.
Packets == {"packet_read", "packet_dma"}
BusMaster == DmaCommands \cup {"packet_dma"}
PioReads == ReadCommands \cup {"packet_read", "identify"}

MultipleWrites == {"write_multiple", "write_multiple_ext"}

\* The driver has identified its drives: it sends each the commands it has, and
\* packets for data that is there.  A slave has no identification.
ASSUME RequestAssumption ==
    \A r \in Requests :
        /\ r \in [drive : Drives, cmd : (Commands \ {"packet"}) \cup Packets,
                  start : 0 .. Sectors, n : Counts, limit : 0 .. Sectors]
        /\ r.cmd \in Packets => r.drive \in Cds /\ r.limit > 0 /\ r.start + r.n <= Sectors
        /\ r.cmd \in ReadCommands \cup WriteCommands \cup DmaCommands => r.drive \notin Cds
        /\ r.cmd = "identify" => r.drive = "master" /\ r.n = 1
ASSUME NoRequestIsNone == None \notin Requests

CommandOf(r) == IF r.cmd \in Packets THEN "packet" ELSE r.cmd

Pcs == {"idle", "program", "table", "command", "packet", "start", "poll", "wait",
        "transfer", "stop", "done", "abort", "reset"}

DriverTypeOK ==
    /\ TypeOK
    /\ pc \in Pcs
    /\ req \in Requests \cup {None}
    /\ taken \in 0 .. Sectors
    /\ left \in 0 .. Sectors

DriverInit ==
    /\ Init /\ nien = TRUE
    /\ pc = "idle" /\ req = None /\ taken = 0 /\ left = 0
    /\ saved_driver = None

Goto(label) == pc' = label /\ UNCHANGED <<req, taken, left, saved_driver>>

-----------------------------------------------------------------------------
(* Programming the registers.                                              *)

\* READ and WRITE MULTIPLE are for a drive whose block size has been set.
Usable(r) == r.cmd \in {"read_multiple"} \cup MultipleWrites
                => drive[r.drive].multiple \notin {None, 0}

Begin(r) ==
    /\ pc = "idle" /\ ~ nien
    /\ Usable(r)
    /\ Select(r.drive)
    /\ pc' = "program" /\ req' = r /\ taken' = 0 /\ left' = 0
    /\ UNCHANGED saved_driver

EnableInterrupts ==
    /\ pc = "idle" /\ nien
    /\ WriteControl(FALSE)
    /\ UNCHANGED <<driver, saved_driver>>

Program ==
    /\ pc = "program"
    /\ WriteTaskFile(req.n, IF req.cmd \in Packets THEN req.limit ELSE req.start)
    /\ Goto(IF req.cmd \in BusMaster THEN "table" ELSE "command")

\* The table of the next transfer is another one than that of the last.
SetTable ==
    /\ pc = "table"
    /\ \E a \in Prdts : SetPrdt(a)
    /\ Goto("command")

Issue ==
    /\ pc = "command"
    /\ CommandStep(req.drive, CommandOf(req))
    /\ Goto(CASE req.cmd \in DmaCommands -> "start"
              [] req.cmd \in WriteCommands -> "poll"
              [] OTHER -> "wait")

-----------------------------------------------------------------------------
(* Transfers.                                                              *)

BlockSize(r) ==
    CASE req.cmd \in Packets -> r.lba
      [] req.cmd \in {"read", "write", "identify"} -> 1
      [] OTHER -> Least(r.multiple, req.n - taken)

\* An interrupt: the status register says what to do, or that it is too early.
Interrupted ==
    /\ pc = "wait" /\ irq
    /\ ReadStatus
    /\ LET r == drive[req.drive]
       IN /\ pc' = IF BsySet(r.status) THEN "wait"
                   ELSE IF r.status # "drq" THEN IF req.cmd \in BusMaster THEN "stop" ELSE "done"
                   ELSE IF r.cmd = "packet" /\ r.data = None THEN "packet"
                   ELSE IF req.cmd \in PioReads \cup WriteCommands THEN "transfer" ELSE "wait"
          /\ left' = IF pc' = "transfer" THEN BlockSize(r) ELSE 0
    /\ UNCHANGED <<req, taken, saved_driver>>

SendPacket ==
    /\ pc = "packet"
    /\ IF req.cmd = "packet_dma" THEN PacketReadDma(req.drive, req.start, req.n) /\ Goto("start")
                                 ELSE PacketRead(req.drive, req.start, req.n) /\ Goto("wait")

StartDma ==
    /\ pc = "start"
    /\ ~ BsySet(drive[req.drive].status) \/ req.cmd = "packet_dma"
    /\ DmaStartRead(req.drive) \/ DmaStartWrite(req.drive) \/ DmaStartPacket(req.drive)
    /\ Goto("wait")

\* The first block of a write is asked for without an interrupt.
Poll ==
    /\ pc = "poll"
    /\ drive[req.drive].status = "drq"
    /\ pc' = "transfer" /\ left' = BlockSize(drive[req.drive])
    /\ UNCHANGED <<vars, req, taken, saved_driver>>

\* One unit; the last block of a read is not followed by an interrupt, except
\* when it is a packet's.
Transfer ==
    /\ pc = "transfer"
    /\ IF req.cmd \in WriteCommands THEN WriteData ELSE ReadData
    /\ taken' = taken + 1 /\ left' = left - 1
    /\ pc' = IF left' > 0 THEN "transfer"
             ELSE IF taken' = req.n /\ req.cmd \in ReadCommands \cup {"identify"} THEN "done" ELSE "wait"
    /\ UNCHANGED <<req, saved_driver>>

StopDma == pc = "stop" /\ DmaStop /\ Goto("done")

Done ==
    /\ pc = "done"
    /\ ClearDmaStatus
    /\ pc' = "idle" /\ req' = None /\ taken' = 0 /\ left' = 0
    /\ UNCHANGED saved_driver

-----------------------------------------------------------------------------
(* Losing patience.                                                        *)

Timeout ==
    /\ ~ Patient
    /\ \/ pc \in {"wait", "poll"}
       \/ pc = "start" /\ BsySet(drive[req.drive].status)
    /\ Goto(IF dma_start THEN "abort" ELSE "reset")
    /\ UNCHANGED vars

Abort == pc = "abort" /\ DmaStop /\ Goto("reset")

ResetChannel ==
    /\ pc = "reset"
    /\ ControlReset(FALSE)
    /\ pc' = "idle" /\ req' = None /\ taken' = 0 /\ left' = 0
    /\ UNCHANGED saved_driver

-----------------------------------------------------------------------------

Drive == \/ \E r \in Requests : Begin(r)
         \/ EnableInterrupts

Proceed == \/ Program \/ SetTable \/ Issue \/ Interrupted \/ SendPacket \/ StartDma
           \/ Poll \/ Transfer \/ StopDma \/ Done \/ Abort \/ ResetChannel

Answer(d, id) == Callback(d, id) /\ UNCHANGED <<driver, saved_driver>>

DriverNext == \/ Drive \/ Proceed \/ Timeout
              \/ \E d \in Drives, id \in Ids : Answer(d, id)

\* A machine that is saved and restored between any two steps.
Save ==
    /\ SaveState
    /\ saved_driver' = [pc |-> pc, req |-> req, taken |-> taken, left |-> left]
    /\ UNCHANGED driver

Restore ==
    /\ RestoreState
    /\ pc' = saved_driver.pc /\ req' = saved_driver.req
    /\ taken' = saved_driver.taken /\ left' = saved_driver.left
    /\ UNCHANGED saved_driver

DriverSpec == DriverInit /\ [][DriverNext]_allvars

RestoredSpec == DriverInit /\ [][DriverNext \/ Save \/ Restore]_allvars

\* The guest goes on with a request it has begun, and the image answers.
LiveSpec ==
    /\ DriverSpec
    /\ WF_allvars(Proceed)
    /\ \A d \in Drives, id \in Ids : WF_allvars(Answer(d, id))

-----------------------------------------------------------------------------
(* Properties.                                                             *)

Current == drive[req.drive]

\* While the driver moves data through the port, DRQ is set and the unit under
\* the data port is the next one of this request: never what an earlier, reset
\* command has left, and never past the block the driver was told of.  After the
\* first block of WRITE MULTIPLE the drive asks for one sector at a time.
PortShowsRequest ==
    pc = "transfer" =>
        /\ Current.status = "drq"
        /\ InBuffer(Current) /\ Current.ptr = taken
        /\ IF req.cmd \in MultipleWrites THEN Current.end - Current.ptr <= left
                                        ELSE Current.end - Current.ptr = left
        /\ req.cmd \in PioReads \ {"identify"} => Current.data = req.start
        /\ req.cmd \in WriteCommands => Current.write_dest = req.start

\* The bus master writes memory only for the request the driver has started
\* and not given up, with the sectors it asked for.
MemoryIsRequested ==
    [][mem' # mem => /\ pc \in {"start", "wait", "abort", "reset"}
                     /\ req.cmd \in {"read_dma", "packet_dma"}
                     /\ mem'.start = req.start /\ mem'.n = req.n]_allvars

\* A request the driver sees completed has moved all its data, and the task
\* file has advanced past it (the multiple commands advance it too far).  A
\* drive without an image refuses every request.
DoneIsComplete ==
    pc = "done" /\ req.drive \notin Empty =>
        /\ req.cmd \in PioReads \cup WriteCommands => taken = req.n
        /\ req.cmd \in {"read_dma", "packet_dma"} => mem.start = req.start /\ mem.n = req.n
        /\ req.cmd \in {"read", "write"} \cup DmaCommands =>
               Current.lba = (req.start + req.n) % LbaWrap /\ Current.count = 0

\* The table a bus master read started with is the one it ends with: the
\* assertion in do_ata_read_sectors_dma.
TableKept ==
    [][\A d \in Drives, id \in Ids :
          /\ calls[d][id] # None /\ calls'[d][id] = None
          /\ id \notin cancelled[d] /\ calls[d][id].op = "dma"
          => calls[d][id].prdt = prdt]_allvars

\* What the driver sees of its request: the bus master has moved the data when
\* the drive is ready again, and a request that is given up is reset later.
Stage == CASE pc = "idle" -> "idle"
           [] pc \in {"abort", "reset"} -> "given_up"
           [] OTHER -> "serving"

Moved == IF pc = "idle" THEN 0
         ELSE IF req.cmd \notin BusMaster THEN taken
         ELSE IF pc \notin {"program", "table", "command"} /\ Current.status = "ready" THEN req.n
         ELSE 0

\* Through all registers, interrupts and late answers the drives do what module
\* DriveService says: a request moves its data once and only for itself, no write
\* reaches the image before all its data is there, and a request that ends has
\* moved everything.
DS == INSTANCE DriveService WITH stage <- Stage, request <- req, moved <- Moved,
                                 memory <- mem, image <- wrote
ServesRequests == DS!Spec

\* Every request ends, without a timeout.
RequestEnds == pc # "idle" ~> pc = "idle"
=============================================================================
