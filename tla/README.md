# vm-browser in TLA+

vm-browser emulates a PC in a browser. A WebAssembly module executes the
guest's instructions; the TypeScript in `src/src/` is everything around it: the
run loop, the disk images, and the devices a guest sees. It is single threaded
and never blocks. The guest runs for a slice, every port access calls a device
handler to completion, and between slices the event loop of the host delivers
timers, messages of a worker, answers to disk reads, network frames, keys and
mouse moves, and the calls of the page (run, stop, save, restore).

The difficulty of the code is therefore never a data race inside a handler. It
is what may come *between* two handlers: the guest does several port accesses to
ask for one thing, and anything asynchronous may arrive in between.

The modules here are written from the code. `PROJECT.json` maps each definition
to the lines it models, and lists the runs, the mutants that show a property
can fail, the hazards and the theorems.

- [1. The system](#1-the-system)
- [2. The modules](#2-the-modules)
- [3. The runs](#3-the-runs)
- [4. The proofs](#4-the-proofs)
- [5. Disagreements](#5-disagreements)
- [6. What is not modelled](#6-what-is-not-modelled)
- [7. Plan](#7-plan)

## 1. The system

| component | state it keeps | operations and callbacks | what makes it correct |
|---|---|---|---|
| disk images, `buffer.ts` | `block_cache`, `block_cache_is_write` | `get` with a callback some time later, `set`, `get_state`, `set_state` | a read returns the content of the moment of its answer; nothing written is lost, in a saved state either; every read is answered |
| run loop, `main.ts` | `running`, `stopping`, `idle`, `tick_counter`, the worker's timer | `run`, `stop`, `yield_callback`, `stop_idling`, `destroy` | only the newest callback counts, it is never lost, `stop` works, a running guest runs |
| IDE and ATAPI, `ide.ts` | per drive a task file, a data buffer with its pointers and the reads under way; per channel the selection, the interrupt, the bus master | port handlers, data ports, bus master start and stop, reset, callbacks of the image, restore | the guest gets the sectors it asked for, in order, and never those of an earlier command; writes reach the image once |
| interrupt controllers, `apic.ts`, `ioapic.ts` | pins, redirection entries, `irr`, `isr`, `tmr`, `tpr` | `set_irq`/`clear_irq`, register writes, acknowledge, EOI | no device is held back for ever, no request is lost, an EOI ends the right handler |
| keyboard and mouse, `ps2.ts` | two queues, the byte on offer, what the next parameter is for, interrupt enables | ports 60h and 64h, host events, reset, restore | the byte is the one the status named; queued bytes never get stuck |
| network card, `ne2k.ts` | ring of pages, `curpg`, `boundary`, `isr`, `imr`, remote DMA | registers, data port, `receive` | unread frames stay whole and in order and are announced |
| display, `vga.ts` | planes, registers, `pixel_buffer`, image, layers, what is marked to be drawn | memory and register writes, `screen_fill_buffer` once a frame, SVGA, restore | what a write makes wrong in a cache is drawn again |
| floppy and DMA, `floppy.ts`, `dma.ts` | command bytes, result bytes; channel registers | ports; `do_write`/`do_read` against a disk image | both sides count the same bytes; a command that ends announces it |
| timers, `rtc.ts`, `pit.ts`, `acpi.ts`, APIC timer | counters derived from the host's clock | ports, `timer(now)` | periods are neither lost nor doubled; the reported next deadline is not late |
| serial ports, `uart.ts` | input queue, interrupt sources `ints`, FIFO enable | ports, bytes of the host | the interrupt line follows the sources |
| PCI and ports, `pci.ts`, `io.ts` | configuration spaces; the entry of each port | configuration accesses, `raise_irq`/`lower_irq`, moving a range, restore | a port reaches the card it was assigned to; the line of a card is up while it asks |
| sound, `sb16.ts` | DSP command parser, FIFOs, DMA buffers | ports, DMA answers, the speaker's demand | an interrupt for every count of samples; the buffer's place is what was played |
| balloon, `virtio_balloon.ts` | queues, page counts | queue notifications | over a transport that is not in the repository |
| bus and glue: `bus.ts`, `cpu.ts` | tables of listeners, memory | synchronous calls, `get_state`, `set_state` | what is restored is what was saved |
| saved states, `state.ts` | none | `save_state`, `restore_state` | every array is found again, in a file and in a stream |
| loaders and helpers: `elf.ts`, `kernel.ts`, `lib.ts`, `log.ts`, `const.ts`, `cjs.ts`, `externs.ts` | none (queues of `lib.ts`) | at start up | |

How they interact:

- A port access of the guest goes through the table of `io.ts` to one handler.
  Handlers call other devices directly (`cpu.device_raise_irq`, `pci.raise_irq`,
  `buffer.get`) or through the bus, which is a synchronous call too. In the
  models such calls are part of the action of the handler.
- `buffer.get` is the exception: its callback may come at once (cached blocks)
  or in a later turn of the event loop. It is the only asynchrony on the guest's
  side of the machine, and the reason for `IdeChannel`.
- `cpu.device_raise_irq` ends in the I/O APIC or the PIC. The processor looks for
  an interrupt when asked (`handle_irqs`) or when the guest enables interrupts.
- `save_state` and `restore_state` run between two slices, at any point of any
  multi-access operation of the guest, and with reads under way.

The behaviours that are hard to test, each at its line, are the `hazards` of
`PROJECT.json`. A hazard without a property says why. Smaller ones that the models
leave to their assumptions are named in section 2 with the module.

## 2. The modules

Every module models one file or two that share state. State variables keep the
names of the code; where several fields always change together they are one
variable, and the comment at its declaration says which.

### Disk, BlockBuffer (`buffer.ts`)

`Disk` is the promise a controller relies on: an array of blocks, writes that
take effect at once, reads answered with the content of the moment of the
answer, a saved state that brings the whole content back.

`BlockBuffer` is the implementation common to `AsyncXHRBuffer`,
`AsyncXHRPartfileBuffer` and `AsyncFileBuffer` (constant `Kind`). Sizes are in
blocks of 256 bytes. `GetCached` and `GetMiss` are the two ways through `get`,
`Set`, `SaveState` and `RestoreState` the other methods; `Loaded(s, l)` is the completion of one load of the read in slot `s`, which runs
`handle_read` in the code's order: the part file variant copies its answer
before the overlay. `LoadsFor` gives the ranges that are fetched, with the
rounding to chunks, and for part files the parts that are not cached whole. `BlockBuffer` is shown to implement `Disk` with `disk` mapped to the file
overlaid with the cache.

`load_file` calls `options.done` as a method of `options`, so that `this` inside
the XHR callbacks is not the buffer; `DoneThrows` says for which kinds the
callback throws. The runs use `file` and `part`, where it is an arrow function;
under `Kind = "xhr"` no read is ever answered (`EveryReadAnswered` fails), which
is what the mutant of that property does to the file.
`SyncBuffer` and `SyncFileBuffer` hold the whole image and answer at once; they
implement `Disk` trivially and are not modelled.

### MainLoop, WorkerYield (`main.ts`)

`MainLoop` is the loop on top of a host that owes callbacks: `pending` is the
set of ticks under way. `Run`, `Stop`, `YieldCallback`, `StopIdling` and
`Destroy` are the functions of the class; `LoopReturns` is `do_tick` after
`main_loop`, with the time it returned. The tick counter grows without bound in
the code; only equality with the ticks under way matters, so a new tick is any
value that is not under way.

`WorkerYield` is the browser's host: two message queues and a worker whose one
timer is replaced by every message (`the_worker`, `main.ts:58`). It implements
`MainLoop` with `Pending` as the callbacks owed: the reason is that what a
message clears is never the newest tick (`NewestCounts`).

The yield through `setImmediate` and the fallback through `setTimeout` are not
modelled (the fallback does not pass the tick on), nor is `main.ts:39`, where the
constructor calls `register_yield` before any of the branches below assigns it.

### DriveService, IdeChannel, IdeDriver (`ide.ts`)

`IdeChannel` is one channel with its two interfaces. `drive[d]` is the record of
an interface: task file, status, and the data buffer as pointer, end, length and
the first sector it was filled from. Transfers count sectors, or whole packets.
`in_progress` and `cancelled` are the two sets of identifiers of
`read_buffer`/`cancel_io_operations`; `calls` are the callbacks the image still
owes, with what their closures captured. `Arrive` is the body of the callbacks
of `ata_read_sectors`, `ata_read_sectors_dma`, `atapi_read` and
`atapi_read_dma`; `Callback` runs it in a later turn, or drops it when the
identifier was cancelled. The guest's side is any order of port accesses.

`IdeDriver` adds the guest: a driver that selects, programs, sends a command,
waits for the interrupt and transfers, one port access at a time. With `Patient
= FALSE` it may give up and reset at every wait. It is what gives properties
like "the port shows the sectors of this request" a meaning: they relate the
registers to what was asked.

`DriveService` is what such a driver expects, without registers: one request at a
time; its data moves once, through the port one unit after the other or by the
bus master as a whole; a write reaches the image with its last unit and in full;
a request ends when its data has moved, or at once if the drive has no image or
the command no data. A bus master read that was given up may still reach memory,
until the channel is reset, and never after it: that is what `ide.ts` does, where
`dma_write_command8` clears the start bit and leaves `read_buffer` alone. In the
mapping of `IdeDriver`, `Stage` is the driver's and `Moved` counts its units; the
bus master has moved everything when the drive is ready again after the command.
Programming, interrupts, packets and the arrival of data for the port are
stutters.

Simplifications: the commands that move sectors go to disks and packets to CD
drives; the interrupt reason bits are left out; the address registers hold and
advance one number, as the 48 bit commands do (after a 28 bit command
`ata_advance` puts the low bits of the next sector into the head register,
`ide.ts:1431`; the model's driver rewrites the task file before each command).

WRITE MULTIPLE needs care: after its first block `data_end` advances by one
sector at a time (`ide.ts:1409`), so the drive may ask for less than the block
the driver was told of; `PortShowsRequest` says so for these commands and has
equality for the others.

What writing the model brought up, and the driver avoids or the properties leave
out: an unsupported command sets the error bit and raises no interrupt; a
command whose status becomes 0xFF shows BSY until a reset; READ MULTIPLE before
SET MULTIPLE never ends; a multiple command advances the task file past what it
transferred when it stops early; stopping the bus master does not stop a DMA
read under way; READ DMA sets the active bit before the guest sets the start
bit; both channels use the bus master port 0xB400; a channel restored from a
state saved while busy stays busy, as the read is not started again;
`create_identify_packet` of an empty slave sets DRQ without data; the status 0xFF
of a packet read past the end contains DRQ, so the DMA copies the packet
buffer.

### Interrupts (`apic.ts`, `ioapic.ts`)

Pins with their line, request and entry; the three registers of the local APIC
as sets of vectors; the task priority. `CheckIrq`, `Deliver`, `CheckVector`,
`AcknowledgeIrq` and `RemoteEoi` are the functions of that name. The
processor is external: `handlers` is the stack of handlers, `looking` that it
was asked to look.

Assumed of the guest, as operating systems do: it ends interrupts with
interrupts disabled, changes the vector or the trigger mode of a pin only while
its line is low and its remote IRR clear, and uses a vector for one trigger mode
only. Without these the code does lose interrupts: a pin switched from edge to
level with its line high is not requested; remote IRR is not cleared by a switch
to edge; an edge on a masked pin is dropped; the edge triggered delivery of a vector whose level triggered request
is in service clears its TMR bit, and the EOI no longer reaches the pin.

### Ps2 (`ps2.ts`)

The two queues by their length, the byte on offer (`ready`, `aux`), the
parameters the guest still owes (`expects`, the flags in the order
`port60_write` asks), the enables, and the interrupts latched by the PIC.
`announced` is a history variable: the byte on offer was offered while its
interrupt was enabled. Every command of ports 60h and 64h is an action or a
disjunct of one; commands that differ only in the bytes they queue share one.

Seen while modelling: enabling an interrupt while a byte is on offer does not
announce it; commands clear both queues; the queues drop single bytes at their
limit, which breaks up packets; several `expect` flags may be set at once and
then route bytes by their order; a restore loses the byte on offer; the wheel
sends packets while streaming is off.

### Uart (`uart.ts`)

One port and a driver. `CheckInterrupt` recomputes `iir` and the line from the
causes (`ints`) and the enables (`ier`) whenever one of them changes;
`requested` is the edge the interrupt controller has taken. The driver
identifies causes until there are none, reads while the status says there is
data, and keeps the transmit interrupt on while it has bytes to send. Of the
modem status the lines that are up (`modem`) and the delta bits (`delta`) are
kept; `changed` is a history variable that says which lines the guest has not
looked at since they changed.

A restored state comes with any number of bytes in `input`, because `set_state`
neither restores nor empties it (`restored`). The properties about received
bytes hold again from the next byte, or the first read that leaves the queue
empty.

### Rtc (`rtc.ts`)

The periodic and the alarm interrupt against the host's clock (`now`), with the
sleep that `timer` allows the main loop (`wake`, `asleep`: the processor is
halted). The clock moves in steps, as `Date.now` does, and periods may be
shorter than a step. `timer` may be called as late as the behaviour likes, but a
sleeping loop wakes at `wake`. `phase` and `checked` are history variables from
which `KeepsTime` derives where the next tick has to be.

Seen while modelling: the alarm is looked at only if no periodic interrupt is
due in the same call; clearing its enable does not disarm it; an alarm for an
hour gone by is due at once, not tomorrow; switching the rate keeps the next
tick of the old one.

### Timers (`pit.ts`, `acpi.ts`, `run_hardware_timers`)

Counter 0 of the interval timer is a value and the time it had it; nothing runs
between two calls of `timer`. `PitTimer` is that call, `CounterValue` the value
the counter should have by now, which is also where a rollover restarts it. The
host's clock has `Tick` units in a tick of the counter, so a rollover drops a
part of one. The guest programs the counter in three accesses with anything in
between; `zero` and `slips` are history variables, from which `PhaseKept` says
when the counter has to reach zero. `GetTimer` is the power management timer, which every read
may push on within a millisecond of the clock, and which must not go back when
the clock catches up.

Seen while modelling: a reload value of 0, which means 10000h, becomes FFFFh;
the access modes 1 and 2 are taken for each other (`pit.ts:283`), so only mode 3
is modelled; a pending interrupt 0 or 9 is withdrawn by the next call of `timer`
(`pit.ts:136`, `acpi.ts:140`) when the guest has not taken it by then, and the
model leaves it open whether it is; `get_timer` asserts that the clock
does not go back, but nothing sets its last value when the state is restored in
a page whose clock starts over (the model restores only the counter).

### Dma, Floppy (`dma.ts`, `floppy.ts`)

`Dma` is a channel as a record and what `do_write` leaves of it: the code calls
itself for what is left when a buffer starts over, and as every call after the
first begins at the start of the same buffer, the last one takes a remainder. `Dma` also keeps
`channel_pagehi`, the array that the constructor does not create: a machine has
it only after the restore of a state that contains it.

`Floppy` is the controller with its driver. `Port3F5Write` is the handler of
the data port: `bytes_expecting` counts down, `Execute` is the command whose last
byte has come. `TransferDone` is the callback of a transfer, in a later turn.
The driver sends a command byte by byte, waits for an interrupt where one is
announced, and reads as many results as the command has. `silent` is a history
variable: the command ended without an interrupt, so the driver may give up.

Seen while modelling: interrupts after a reset do not ask bit 3 of the output
register; a reset leaves a half received command; after a restore the last byte
of a command calls an undefined handler, and the model stops there
(`stopped = "command"`).

### Sb16 (`sb16.ts`)

Playing: the driver programs a DMA channel with a buffer of `Buffers` samples,
the card is told how many samples make an interrupt, and the speaker asks for
blocks (`DacHandleRequest`). The three sizes need not fit. `played`, `begun` and
`signals` are history variables: bytes played, where the command began, and the
interrupts since. `Begin` is `dma_on_unmask`: a command given before the channel
is unmasked waits for it. A driver starts no single transfer longer than its
buffer, and no command while one is under way.

Seen while modelling: the 8 bit channel is undefined until mixer register 81h
is written (`sb16.ts:225` assigns another field); command F2h raises the line
with no type, which the 8 bit acknowledgement does not lower; writing 0 to port
2x6 after high speed mode ends the mode and not the transfer; a count of FFFFh
makes `do_write` move nothing and call itself for ever when the buffer starts over
(`dma.ts:292`; buffers of the model are smaller); the answer bytes under way are
not saved while the command is.

### Isa

Composes `Ps2`, `Uart`, `Rtc`, `Timers`, `Floppy` and `Sb16` for the runs. But for
the array of the DMA controller they share no state, so `device` picks the one that moves, and the reachable
states add up instead of multiplying.

### Pci, MCPci (`pci.ts`, `io.ts`)

`io.ts` has an entry of handlers for every port, and `register_read` fills in the
entry that is there; a card remembers the entries of its range. `SetIoBars` is
what the loop of `set_io_bars` leaves at each port: the old ports are emptied,
the card's own entries go to the new ones, block by block (`EntryAfter`). Firmware
sizes a range (which moves it to the end of the ports), puts it back or assigns
it, and gives no two cards the same ports; a restore moves every range from
where the card was made, card after card, and a port that several cards leave or
take is as the last of them leaves it (`RestoreBars`).

`set_io_bars` does not look at what it overwrites. `Board` therefore assumes
`RangesApart`: ranges at multiples of their size, from 1000h on, and neither
where another card was made nor where a size check puts one. Outside that, ports
are lost: a range that moves up over a part of itself empties ports it has just
taken; a card restored to where a later card was made loses them when that card is
moved away; and two cards made at the same place, as the two IDE channels are,
take each other's entries (section 5).

`Irq` and `IrqToLower` are the two formulas of `raise_irq` and `lower_irq`. A
line is not counted: a card that lowers a shared line lowers it for all
(`dropped`), and so do cards of one line in the code.

### SavedState (`state.ts`, `cpu.ts`)

A state is a header, a description, and arrays that start aligned. A page of
packed memory is numbered by the packed pages before it (`PackedPage`). `SaveState`
lays them out with the offsets that the description names; `RawBuffers` cuts a
file by these offsets, `StreamBuffers` counts the bytes it has read of a
decompressed stream. Memory is a bitmap and the pages that are not zero. The
description's length varies with everything in it (`InfoLengths`). `SetState`
stops at the first device whose state is absent: what comes before it is
restored, what comes after is not (`outcome = "torn"`). Not saved by the code, and so
not in the model: `fw_pointer`, the FIFO of the host's side of a device, and
everything that waits for a callback.

### Ne2k (`ne2k.ts`)

The ring in cells: a page has `PageSize` of them, the header takes the first.
`Receive` writes a frame in one piece or two, `DataPort` is the remote DMA with
its wrap at the end of the ring. The driver masks, acknowledges, reads `curpg`
and copies, one access at a time; its boundary is one page behind the frame it
reads next. Address filters, padding, register pages and frame contents are
left out, and restore: the card's memory is not part of what `set_state`
restores unless its address is preserved. `RingDelivers` joins what the driver
reads to what came, until the ring was overrun (section 5).

### Vga (`vga.ts`)

A picture passes two caches: `vga_replot` makes the pixel buffer from the
planes, `vga_redraw` the image from the pixel buffer and the colours. Writes mark
what they have made wrong, and `screen_fill_buffer` repairs what is marked.
Pixels come in groups of eight (four in 8 bit modes), the unit in which the
planes are read. `stale` and `unpainted` are history variables that say which
groups really are wrong, computed from `Source`, the address a group comes from
under the present registers; `diff_plot` and `diff_addr` are what the code
marks, computed with `GroupOf`, its inverse in `vga_addr_to_pixel`.

Some wrong groups are known not to be marked, and collected in `unmarked`:
`complete_replot` does nothing in text and SVGA modes, whatever the register
changed ("Pixel buffer invalidated"), and entering a bank mode does not replot.
Guests clear the memory after a mode switch, which marks everything; the model
shows that a group leaves `unmarked` as soon as it is drawn again, and that
there is no other gap. The image is assumed to keep its contents when it is
allocated again, which is up to the WebAssembly module.

Left out: text mode on the screen (its writes to the planes are there), panning
and split screen as values, write modes and latches, memory reads, and the SVGA
picture. The size registers are not zero, as the BIOS leaves them; in bank modes
nothing is drawn after a page flip, which `vga_addr_to_pixel` states as its
assumption.

### Board

Composes `Vga`, `Ne2k`, `MCPci`, `Interrupts` and `SavedState` in the way of `Isa`:
`part` picks the one that moves. Its assumption is `RangesApart` of `Pci`.

### The proof modules

`BlockBufferProofs`, `WorkerYieldProofs`, `IdeProofs`, `InterruptsProofs` and
`Ps2Proofs` extend the module they are about, `IsaProofs` and `BoardProofs` the
compositions. `Division` has what they need about quotients and remainders by any
divisor: that they are unique, how they behave under addition, and when one number
divides another.

## 3. The runs

| run | what it asks | bounds, and why they are enough |
|---|---|---|
| BufferFile | Does a local file implement `Disk`, is every read answered, does the cache agree with the file? | 2 blocks, 2 values, 2 reads: enough for reads that overlap in part, writes between load and answer, a restore with both under way |
| BufferChunks | Are the right part files loaded, every block at its own place, and unwritten blocks exact? | 4 blocks in 2 parts of 2: requests inside a part, across both, ending at a border |
| BufferChunksStale | Are written blocks in the answer of a part file read? | the same; violated, see 5 |
| WorkerYield | Does the worker implement the loop, is the newest callback ever lost, does `stop` work, does a running guest run? | 3 ticks under way: the timer, a message to the worker and one back; 5 values, so that stale ticks may be reused |
| IdeDisk | With an impatient driver: is what it gets and what it writes what it asked for, and is the whole the service of `DriveService`? | a disk of 4 sectors, requests for 1, 2 and 4 of them and past the end, multiple commands in blocks of 2, so that a block is moved whole or cut, a command the drive does not have; 2 reads under way, one of them cancelled; 2 tables |
| IdeLive | Does every request of a patient driver end, with complete data? | a CD drive and a disk; packets of 1 or 2 sectors with byte count limits of 1 or 2 |
| IdeRestored | Does a read keep to the descriptor table it was started with? | a disk; violated, see 5 |
| Isa | Keyboard controller: does the offer match the queues, is a byte ever stuck, does the status hold until the read? Serial port: does it ever go dead, is what its status says true? Clock and interval timer: is a reason ever left without an interrupt, do periodic ones keep their phase, does the loop wake for them? Power management timer: does it go back or run ahead? Floppy: do driver and controller count the same bytes, is a waiting driver served? Sound: do interrupts and the buffer's place follow what is played? | queues of 4 bytes, less than two packets, so overflow happens at once, 2 owed parameters; 2 bytes each way, so that a read leaves one behind, and 1 modem line, as lines do not affect each other; 5 steps of the clock, a period shorter and one longer than a step, so that a late call skips several periods or none; a counter of 2 bytes of 1 bit, 2 units of the clock to a tick, so that every reload value, several periods and a part of a tick occur; buffers of 3 and 4 samples, counts of 2 and 3, blocks of 2: one divides the other or not |
| FloppyReads | Is a transfer asked of the DMA controller made? | violated, see 5 |
| Board | Display: is all that a write makes wrong marked, do layers follow the registers, does a filled screen show the planes? Network: are frames whole, in order and announced? Bus: does a port reach the card it was assigned to, is a line up while a card asks? Interrupts: is a level triggered pin ever held back or lost, is the processor always asked, do EOIs match? Saved states: is a machine restored the machine saved? | 4 groups, banks of 2 addresses, rows of 1 and 2 groups, byte and word addressing, pages at 0 and 1; 5 pages of 3 cells, frames of 1 and 2 pages, 4 frames, so that the ring wraps; 3 cards, one with ports that never move, ranges of 1 and 2 blocks that may be put over where another was; 2 pins, 2 level vectors of different classes, an edge vector between them, 2 task priorities, 3 nested handlers; 3 pages of memory with 2 to a byte of the bitmap, arrays and descriptions of odd and even length |
| PciChannels | Do the bus master ports of two IDE channels reach their channel? | 2 channels; violated, see 5 |
| Ne2kOverrun | Is an unread frame ever overwritten? | 3 frames in the same ring; violated, see 5 |

Deadlock is checked in every run.

The type invariants of modules with a theorem about their types, and of the
others where they say less than the properties, are not checked by a run.

Names of bounds: `MaxPending` (callbacks under way), `Ids` (reads under way),
`CountWrap`, `LbaWrap` (register widths, kept as a modulus), `MaxDepth`
(nesting), `MaxExpected` (owed parameters), `MaxFrames`, `MaxInput` and
`MaxToSend` (bytes each way of the serial port), `MaxTime` and `LastTime` (the
clock), `Byte` (values of a byte of the counter), `MaxPlayed` (bytes played).

Symmetry is used in IdeDisk, over the identifiers of reads, which are only
compared; that run has no liveness property.

### Fairness

- BufferFile: every load completes. A local file always does, and `load_file`
  retries after a network error and after a status of 500 or above. It does
  *not* retry 4xx; a server that answers so leaves the read without an answer,
  which is a hazard without a property.
- WorkerYield: messages arrive, timers fire, `main_loop` returns (it runs the
  guest for a limited time). Nothing makes the page call `run` or `stop`.
- IdeLive: the driver goes on with a request it has begun, and the image
  answers; nothing makes the driver begin one. The answers are the fairness of
  BufferFile.

The other specifications have no fairness: their properties are safety
properties, stated so that losing an interrupt is a state and not a failure to
progress. `NoStuckByte`, `PortIsServed`, `KeepsTime`, `WaitServed`, `RemoteIrrReleased`
and `NoLostInterrupt` say that what must eventually happen has its cause under
way now.

### Mutants

Each property of a passing run has a mutant: a plausible bug in one definition,
under which TLC finds that property violated. They are the operators whose
comment says "a mutant of".

## 4. The proofs

The theorems hold for every value of the constants that satisfies the
assumptions named in the modules. They use the safety part of the
specifications, `Spec`.

- `BlockBufferProofs`. `TypeCorrect` needs that the chunks of a request lie in
  the image (`ChunkInImage`, arithmetic of division). `CacheAgreement` is
  inductive with the types alone: a cached block that is not marked as written is the
  file's. `ImplementsDisk`, for buffers without chunks, uses `OneLoad`: a get
  has at most one load, of exactly its range, so the load that completes
  answers the request it was made for. For a chunked buffer that theorem is
  false (section 5); what remains true of it is `AnswersAreInPlace`, from
  `AllInPlace` (a cached, saved or delivered block is the file's for its place
  or one that was written) and `AllCovered` (a block a read wants is there or is
  in a load under way).
- `WorkerYieldProofs`. `Distinct` (a tick is under way once) and `NewestCounts`
  (the last message sent carries `tick_counter`, and older places are stale)
  need each other: a new tick is fresh and goes to the end of the queue. With
  `Silent` (nothing is under way without a worker) they give
  `ImplementsMainLoop`, and `LiveTick` is then proved of `MainLoop` and
  inherited.
- `IdeProofs`. The registers of a drive (`Regs`), the reads under way (`Ios`) and
  a saved state (`SavedOK`) are the invariant. `Ios` says that a read is late
  exactly when its identifier is in `cancelled`; with it `Bookkeeping` is the
  assertion of `read_buffer`, and `LateAnswersDropped` that a cancelled read
  changes nothing when it is answered.
  For the driver, `DriverInv` says for each point of its program what the drive
  is doing: `Quiet` (no read is in progress, though cancelled ones may still be
  answered) while it programs; `OnlyWanted` (a read in progress is the one this
  request makes) after the command; `Awaits`, `Offers`, `Started`, `Waiting` and
  `Complete` for the phases of a command, and `BusMasterOff` for the points where
  the bus master cannot be on. `TaskFile` relates the registers, which count down and wrap,
  to the units taken. It needs `Regs` and `Ios`, since a late answer is
  harmless only because it is known to be cancelled, and `NoneOfEmpty`: a drive
  without an image has no command of an earlier request to go on with. The four
  properties of `IdeDriver` about registers follow; that `taken` and `left` are
  bounded by the disk is `DriverTypes`, proved on top of it. The proof of
  `PortOffersTheRequest` found that equality does not hold for WRITE MULTIPLE,
  which a disk of two sectors had hidden.
  `ImplementsDriveService` is last. The lemmas `IssueMoves`, `PacketMoves`, `StartMoves`,
  `UnitMoves` and `AnswerMoves` say, from `DriverInv`, what a step of the driver or
  an answer of the image does to memory, the image and the status of the drive;
  a step that moves nothing is a stutter by `Silent`. `Finished` is the one new
  invariant: after a bus master request the drive is ready from the moment the
  driver stops the bus master, so that `Moved` is the whole request when it ends.
- `InterruptsProofs`. `PinsMatch` (request and line of level triggered pins),
  `HeldIsActive` (the vector of a held pin is requested or in service) and
  `LevelMarked` (level vectors have their TMR bit) are inductive together: each
  is disturbed by a different action and needs another to be kept by the EOI.
  The four safety properties follow; `NoInterruptIsLost` and
  `HandlersAreInService` are inductive relative to it.
- `Ps2Proofs`. `TypeOK /\ OfferMatches /\ NoStuckByte` is inductive. The lemmas
  follow the calls: what `raise_irq` offers (`OfferNextKeeps`), what a read
  leaves, what a command answers. `StatusIsStable` is an action property under
  that invariant.

- `IsaProofs`. One invariant per device, and the steps of the others leave it
  alone.
  - Floppy: `InPhase` says for each stage of the driver which bytes each side
    still expects, and what the line and its request are then: a line that is up
    already makes no request, so `WaitServed` needs the level too.
  - Serial port: `LineMatches` (`iir` and the line are those of the causes and
    enables), `LineHeard` (a line that is up has a request or a driver at work)
    and `BytesThrown`, `TransmitThrown` (what should be a cause is one).
  - Sound: `ChannelsStand`, `WholeSamples`, `HasRoom` and `Reaches` relate the
    channel, the bytes left to the next interrupt and `played`, modulo the buffer
    and the count. `BlockPlayed` is one block of the speaker.
  - Clock: `LineTells`, `WakesInTime` and `KeepsPhase`, through `SleepIs` and
    `NextTickIs`, what `timer` returns and how it catches up.
  - Interval timer: a counter loses a part of a tick at every rollover, at
    most `Tick - 1` units each, so `PhaseKept` is a bound that grows with `slips`;
    `RolloverInPhase` is that step. `PmTimerIsTrue` is an action property under
    `PmInv`: it needs that the time of the clock in ticks grows with the clock.
- `BoardProofs`. Again one invariant per part.
  - Display: `MarkInv` says that a group that is wrong in a cache is marked
    or in `unmarked`. Each write is a lemma about `GroupOf`
    being the inverse of `Source`, for either addressing and any scale.
  - Lines: `SameLine`, that the two formulas agree for any pin and slot. Ranges:
    `BarsKnown`, `PlacedApart` and `FixedStay`; every move keeps them by `RangesApart`.
  - Network card: `Chain` says that the frames from the first unread one to
    `curpg` are one behind the other, `Positions` where `boundary`, the remote
    address and the driver stand in it, `UnreadKept` that the cells between hold
    them. Distances are counted around the ring from the page being read (`Ahead`), so
    that they add up. All of it is under `~ full`: section 5 has the frame that
    makes the ring look empty.
  - Saved states: `FileHolds` says that a file has the offsets and the arrays it
    was laid out with, and the pages under their packed numbers. That the two
    readers find an array, whatever came before, is induction on its number,
    which is done here by taking the least array at which they differ
    (`LeastElement`) and looking at the one before; `Climbs` and `Accumulates` are the
    facts about running sums.

The assumptions about constants are those of the code or of its users:
registers have at least two values (`CountWrap > 1`), blocks of sound are whole
16 bit samples (`LeastBlock` even), a page of the ring holds more than a header,
there is a line to route to, arrays of devices are not empty, a driver sends a
drive only commands for its kind and packets only for sectors that are there
(`RequestAssumption`), and `None` is not a request or a command. `RangesApart` is the one that a
machine can break, see `Pci` above and section 5.

Every safety invariant and action property of a passing run is the subject of a
theorem. Model-checked only are the liveness properties (`EveryReadAnswered`,
`GuestRuns`, `StopTakesEffect`, `RequestEnds`), which depend on fairness, and the
violations of section 5. The theorems are about the modules' operators and the
actions as written; that the closed forms of `DoWrite` and `EntryAfter` are what
the loops and calls of the code compute is read from the code.

## 5. Disagreements

Five runs are expected to find a violation.

- `BufferChunksStale`: `AsyncXHRPartfileBuffer.get` copies the bytes of the file
  into its result before `handle_read` lays the written blocks over them
  (`buffer.ts:395`), so it answers with old content. The comment of
  `handle_read` says that it overwrites what has been written since.
- `IdeRestored`: `set_state` leaves reads under way alone; the callback of a bus
  master read started before it runs with the restored table, against the
  assertion at `ide.ts:1535`.
- `Ne2kOverrun`: a frame that takes exactly the pages that are left is accepted
  and makes the ring look empty (`ne2k.ts:1145`), and the next frame overwrites
  it instead of being dropped.
- `PciChannels`: both IDE channels are made with their bus master registers at
  B400h (`ide.ts:67`), and register their handlers in the same entries. Wherever
  firmware moves the two ranges, the ports of the first reach the second
  channel or nothing. The comment at `ide.ts:45` says that the addresses of
  the constructor likely do not matter.
- `FloppyReads`: `dma.ts:28` creates `channel_page` a second time where it should
  create `channel_pagehi`, and every transfer of `do_read` and `do_write` throws. In `Isa`
  the same module runs on with a restored state that has the array.

## 6. What is not modelled

`PROJECT.json` lists every component with its reason. In short: the processor,
the PIC and the SVGA fill are in the WebAssembly module, outside this
repository, and so is the transport of the memory balloon; `bus.ts` is a
synchronous call; the loaders (`elf.ts`, `kernel.ts`) parse once at start up and
keep nothing; `log.ts`, `const.ts`, `cjs.ts` and `externs.ts` have no state that
changes.

Of the components that are modelled in part, the largest gaps are: text mode,
SVGA and the write modes of the display; recording, high speed mode, the mixer
and FM registers of the sound card; the APIC timer and the interrupts between
processors; the interrupt of the power management timer; the second counter
and the access modes of the interval timer; the time of day of the clock; reads
of PCI configuration space; address filters and restore of the network card;
start up and the firmware configuration ports of `cpu.ts`.

Seen while reading these parts: `virtio_balloon.ts:195` asks for a clean up with
the same command whatever came before; `pci_write8` throws for a device that is
absent, as it looks at the space before it tests for it (`pci.ts:306`); `uart.ts`
never raises the modem status interrupt, and clears the delta bits before it
returns them.

## 7. Plan

Done, in this order, the parts whose failure a guest notices most: disk images,
run loop, IDE, interrupt controllers, keyboard and mouse, network card, display,
serial port, clock, interval and power management timer, PCI ranges and lines,
floppy, DMA, sound, saved states.

Every safety property of these parts is proved as well.

1. Lines of `Pci` composed with the pins of `Interrupts`, and both with the
   devices that raise them.
2. `Disk` below `IdeChannel`: `DriveService` has where data goes, and not yet the
   contents of the sectors.
3. The APIC timer; recording and high speed mode of the sound card; text mode of the
   display.
4. The VirtIO balloon if its transport appears.
