-------------------------------- MODULE Sb16 --------------------------------
(***************************************************************************)
(* Playing sound, sb16.ts: a driver programs a DMA channel with a buffer   *)
(* that may start over, tells the card how many samples make an interrupt, *)
(* and refills the buffer as the interrupts come.  The speaker of the host *)
(* asks for a block at any time; a block, an interrupt's worth and the     *)
(* buffer have sizes of their own.                                         *)
(*                                                                         *)
(* The two channels are the 8 bit and the 16 bit one.  A command is one    *)
(* step.  Left out: high speed mode, recording, direct output, the mixer   *)
(* but for its interrupt status, and what the samples are.  The driver has *)
(* chosen its 8 bit channel in mixer register 81h, as dma_channel_8bit is  *)
(* undefined until it does.                                                *)
(***************************************************************************)
EXTENDS Dma, FiniteSets

CONSTANTS BlockSamples, \* SB_DMA_BLOCK_SAMPLES
          LeastBlock,   \* 32 bytes
          Buffers,      \* external: sizes of the driver's buffers, in transfers
          Counts,       \* external: samples it wants an interrupt for
          MaxPlayed     \* bounds the bytes of a run

ASSUME Sb16Assumption ==
    /\ BlockSamples \in Nat \ {0} /\ MaxPlayed \in Nat
    /\ LeastBlock \in Nat \ {0} /\ LeastBlock % 2 = 0   \* of 16 bit samples too
    /\ Buffers \subseteq 1 .. CountWrap - 1 /\ Counts \subseteq Nat \ {0}

VARIABLES dma_channel, dma_irq, dma_autoinit, dma_sample_count, dma_bytes_count, dma_bytes_block,
          dma_bytes_left, dma_waiting_transfer, dma_paused,
          irq_triggered,   \* the types it holds for the interrupt status
          channels, masked,\* dma.ts
          irq5, edge5,     \* external: the line, and the request of the interrupt controller
          handling5,        \* external: the driver is in its handler
          playing,         \* external: what the driver plays, or None
          played,          \* history: bytes since the buffer was programmed
          begun,           \* history: played when the command was given
          signals,         \* history: interrupts since then
          probed           \* history: the line was raised by command F2h

None == 0
Types == {8, 16}
transfer == <<dma_channel, dma_irq, dma_autoinit, dma_sample_count, dma_bytes_count, dma_bytes_block,
              dma_bytes_left, dma_waiting_transfer, dma_paused>>
sound_line == <<irq5, edge5, irq_triggered>>
dma_channels == <<channels, masked>>
sound_history == <<played, begun, signals, probed>>
sound_state == <<transfer, sound_line, dma_channels, handling5, playing, sound_history>>
sb16_vars == <<sound_state, channel_pagehi>>

Unit(c) == IF c = 16 THEN 2 ELSE 1     \* bytes_per_count, and bytes_per_sample

Sb16TypeOK ==
    /\ dma_channel \in Types \cup {None} /\ dma_irq \in Types \cup {None}
    /\ {dma_autoinit, dma_waiting_transfer, dma_paused, irq5, edge5, handling5, probed} \subseteq BOOLEAN
    /\ {dma_sample_count, dma_bytes_count, dma_bytes_block, dma_bytes_left, played, begun, signals} \subseteq Nat
    /\ irq_triggered \subseteq Types /\ masked \subseteq Types
    /\ channels \in [Types -> [addr : Nat, count : 0 .. CountWrap - 1, init : 0 .. CountWrap - 1, auto : BOOLEAN]]
    /\ playing \in Types \cup {None}

\* dsp_reset.
TransferReset ==
    /\ dma_channel' = None /\ dma_irq' = None /\ dma_autoinit' = FALSE
    /\ dma_sample_count' = 0 /\ dma_bytes_count' = 0 /\ dma_bytes_block' = 0
    /\ dma_bytes_left' = 0 /\ dma_waiting_transfer' = FALSE /\ dma_paused' = FALSE

Sb16Init ==
    /\ dma_channel = None /\ dma_irq = None /\ dma_autoinit = FALSE
    /\ dma_sample_count = 0 /\ dma_bytes_count = 0 /\ dma_bytes_block = 0
    /\ dma_bytes_left = 0 /\ dma_waiting_transfer = FALSE /\ dma_paused = FALSE
    /\ irq_triggered = {} /\ irq5 = FALSE /\ edge5 = FALSE
    /\ channels = [c \in Types |-> Programmed(1, FALSE)] /\ masked = {}
    /\ DmaInit
    /\ handling5 = FALSE /\ playing = None
    /\ played = 0 /\ begun = 0 /\ signals = 0 /\ probed = FALSE

-----------------------------------------------------------------------------
(* The card.                                                               *)

AtLeastOf(a, b) == IF a > b THEN a ELSE b
AtMostOf(a, b) == IF a < b THEN a ELSE b

\* raise_irq and lower_irq, with an edge only of a line that was low.
RaiseIrq5(type) ==
    irq_triggered' = irq_triggered \cup type /\ irq5' = TRUE /\ edge5' = (edge5 \/ ~ irq5)

LowerIrq5(type) == irq_triggered' = irq_triggered \ type /\ irq5' = FALSE /\ edge5' = FALSE

\* dma_on_unmask, once the channel is not masked.
Begin ==
    /\ dma_waiting_transfer' = FALSE /\ dma_paused' = FALSE
    /\ dma_bytes_left' = dma_bytes_count'
    /\ begun' = played /\ signals' = 0

\* dma_transfer_size_set, for all but 1Ch, which takes the count of command 48h, and
\* dma_transfer_start.
Start(c, samples, auto) ==
    /\ dma_channel' = c /\ dma_irq' = c /\ dma_autoinit' = auto
    /\ dma_sample_count' = samples
    /\ dma_bytes_count' = samples * Unit(c)
    /\ dma_bytes_block' = AtMostOf(AtLeastOf(((samples * Unit(c)) \div 16) * 4, LeastBlock), BlockSamples * Unit(c))
    /\ IF c \in masked
       THEN dma_waiting_transfer' = TRUE /\ UNCHANGED <<dma_paused, dma_bytes_left, begun, signals>>
       ELSE Begin

\* A mutant of BytesLeft: the rest of the block counts for the next interrupt.
BytesLeftOver(left, size) == IF left = size /\ dma_autoinit THEN dma_bytes_count + size ELSE left - size

\* dma_transfer_next: an interrupt when all are played, and from the start again.
BytesLeft(left, size) == IF left = size /\ dma_autoinit THEN dma_bytes_count ELSE left - size

DmaTransferNext ==
    LET size == AtMostOf(dma_bytes_left, dma_bytes_block)
    IN  /\ played + size <= MaxPlayed
        /\ channels' = [channels EXCEPT ![dma_channel] = DoWrite(@, size \div Unit(dma_channel))]
        /\ dma_bytes_left' = BytesLeft(dma_bytes_left, size)
        /\ played' = played + size
        /\ IF dma_bytes_left = size
           THEN RaiseIrq5({dma_irq}) /\ signals' = signals + 1
           ELSE UNCHANGED <<sound_line, signals>>

\* dac_handle_request.  The exception without high pages ends in the host's handler.
DacHandleRequest ==
    /\ dma_bytes_left > 0 /\ ~ dma_paused /\ CanTransfer
    /\ DmaTransferNext
    /\ UNCHANGED <<dma_channel, dma_irq, dma_autoinit, dma_sample_count, dma_bytes_count, dma_bytes_block,
                   dma_waiting_transfer, dma_paused, masked, channel_pagehi, handling5, playing, begun, probed>>

-----------------------------------------------------------------------------
(* The driver.                                                             *)

\* It programs the channel, masked, when it plays nothing.
ProgramDma(c, size, auto) ==
    /\ playing = None /\ ~ handling5
    /\ masked' = masked \cup {c}
    /\ channels' = [channels EXCEPT ![c] = Programmed(size, auto)]
    /\ playing' = c
    /\ played' = 0 /\ begun' = 0 /\ signals' = 0
    /\ UNCHANGED <<transfer, sound_line, channel_pagehi, handling5, probed>>

\* port_singlemask_write: the card may be waiting for it.
Unmask(c) ==
    /\ playing = c /\ c \in masked
    /\ masked' = masked \ {c}
    /\ IF dma_channel = c /\ dma_waiting_transfer
       THEN UNCHANGED dma_bytes_count /\ Begin
       ELSE UNCHANGED <<dma_bytes_count, dma_waiting_transfer, dma_paused, dma_bytes_left, begun, signals>>
    /\ UNCHANGED <<dma_channel, dma_irq, dma_autoinit, dma_sample_count, dma_bytes_block, sound_line,
                   channels, channel_pagehi, handling5, playing, played, probed>>

\* Commands 14h, 1Ch, B0h to B7h and C0h to C7h, when the card plays nothing.
StartCommand(c, samples, auto) ==
    /\ playing = c /\ dma_bytes_left = 0 /\ ~ dma_waiting_transfer
    /\ channels[c].auto \/ channels[c].addr + samples <= channels[c].init + 1
    /\ Start(c, samples, auto)
    /\ UNCHANGED <<sound_line, dma_channels, channel_pagehi, handling5, playing, played, probed>>

\* D0h and D5h, D4h and D6h, D9h and DAh.
PauseOrExit ==
    /\ playing # None /\ dma_channel # None
    /\ \/ dma_paused' = ~ dma_paused /\ UNCHANGED dma_autoinit
       \/ dma_autoinit' = FALSE /\ UNCHANGED dma_paused
    /\ UNCHANGED <<dma_channel, dma_irq, dma_sample_count, dma_bytes_count, dma_bytes_block, dma_bytes_left,
                   dma_waiting_transfer, sound_line, dma_channels, channel_pagehi, handling5, playing, sound_history>>

\* port2x6_write: it stops, whatever is under way.
ResetDsp ==
    /\ ~ handling5
    /\ TransferReset
    /\ LowerIrq5(Types)
    /\ playing' = None /\ probed' = FALSE
    /\ UNCHANGED <<dma_channels, channel_pagehi, handling5, played, begun, signals>>

\* F2h, with which a driver finds out its line: an interrupt of no type.
TriggerIrq ==
    /\ playing = None /\ ~ handling5
    /\ RaiseIrq5({}) /\ probed' = TRUE
    /\ UNCHANGED <<transfer, dma_channels, channel_pagehi, handling5, playing, played, begun, signals>>

TakeInterrupt5 ==
    /\ edge5 /\ ~ handling5
    /\ edge5' = FALSE /\ handling5' = TRUE
    /\ UNCHANGED <<transfer, irq_triggered, irq5, dma_channels, channel_pagehi, playing, sound_history>>

\* port2xE_read, which acknowledges only an 8 bit interrupt, and port2xF_read.
Acknowledge(type) ==
    IF type = 16 \/ type \in irq_triggered THEN LowerIrq5({type}) ELSE UNCHANGED sound_line

\* The handler acknowledges what the interrupt status, register 82h, shows, or an
\* 8 bit interrupt when it shows none.
SoundHandler ==
    /\ handling5 /\ handling5' = FALSE
    /\ Acknowledge(IF 16 \in irq_triggered THEN 16 ELSE 8)
    /\ UNCHANGED <<transfer, dma_channels, channel_pagehi, playing, sound_history>>

\* set_state, of the state as it is.
SoundRestored ==
    /\ DmaRestored
    /\ UNCHANGED <<transfer, sound_line, dma_channels, handling5, playing, sound_history>>

SoundDriver ==
    \/ \E c \in Types, size \in Buffers, auto \in BOOLEAN : ProgramDma(c, size, auto)
    \/ \E c \in Types : Unmask(c)
    \/ \E c \in Types, samples \in Counts :
        \E auto \in {FALSE, channels[c].auto} : StartCommand(c, samples, auto)
    \/ PauseOrExit \/ ResetDsp \/ TriggerIrq \/ TakeInterrupt5 \/ SoundHandler

Sb16Next == SoundDriver \/ DacHandleRequest \/ SoundRestored

Sb16Spec == Sb16Init /\ [][Sb16Next]_sb16_vars

-----------------------------------------------------------------------------
(* Properties.                                                             *)

\* The DMA channel stands where the driver, which reads its address, takes the
\* card to be: at the bytes played, from the start again in a buffer that starts
\* over, however blocks, interrupts and the end of the buffer fall.
InPlace ==
    \A c \in Types : playing = c =>
        LET size == (channels[c].init + 1) * Unit(c)
        IN  channels[c].addr * Unit(c) = IF channels[c].auto THEN played % size ELSE played

\* An interrupt for every count of samples played, neither early nor late.
SignalPerCount ==
    dma_channel # None /\ ~ dma_waiting_transfer =>
        played - begun = signals * dma_bytes_count
                           + IF dma_bytes_left = 0 THEN 0 ELSE dma_bytes_count - dma_bytes_left

\* An interrupt is requested or in its handler as long as the line is up, so the
\* next one makes an edge (after F2h only a reset lowers it).
SoundHeard == irq5 => edge5 \/ handling5 \/ probed

PlaysInTime == InPlace /\ SignalPerCount /\ SoundHeard

=============================================================================
