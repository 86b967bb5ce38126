----------------------------- MODULE SavedState -----------------------------
(***************************************************************************)
(* Saved states: save_state and restore_state of state.ts over get_state   *)
(* and set_state of the machine, cpu.ts.  A state is a header, a           *)
(* description whose length depends on everything in it, and the arrays it *)
(* names, each aligned; memory is saved as a bitmap of the pages that are  *)
(* not zero and those pages.  A file is cut into arrays by its offsets, a  *)
(* compressed one by counting what has been read of a stream.              *)
(*                                                                         *)
(* A device is an array of its own length; what it does when its state is  *)
(* set is in its module.  The processor's registers, which the description *)
(* holds, are one value.                                                   *)
(***************************************************************************)
EXTENDS Integers, Sequences, FiniteSets

CONSTANTS NPages,      \* pages of memory, of one byte each
          ByteBits,    \* bits of a byte of the bitmap
          DeviceBytes, \* the length of each device's array, in the order they are saved
          Alignment,   \* four bytes
          HeaderBytes, \* STATE_INFO_BLOCK_START
          InfoLengths  \* lengths a description may have

ASSUME SavedStateAssumption ==
    /\ NPages \in Nat /\ ByteBits \in Nat \ {0} /\ DeviceBytes \in Seq(Nat \ {0})
    /\ Alignment \in Nat \ {0} /\ HeaderBytes \in Nat /\ HeaderBytes % Alignment = 0
    /\ InfoLengths \subseteq Nat

AllDevices == 1 .. Len(DeviceBytes)
Absent == -1

VARIABLES mem8,          \* what is in each page, 0 for zeros
          device_state,  \* what is in each device's array, or Absent
          registers,
          file,          \* external: a state kept by the host, or << >>
          kept,          \* history: the machine it was saved from
          outcome        \* of the last call of restore_state, until the guest runs on

machine == <<mem8, device_state, registers>>
saved_vars == <<machine, file, kept, outcome>>

SavedPages == 0 .. NPages - 1

SavedTypeOK ==
    /\ mem8 \in [SavedPages -> 0 .. 1] /\ registers \in 0 .. 1
    /\ device_state \in [AllDevices -> {Absent, 0, 1}]
    /\ outcome \in {"none", "restored", "refused", "torn"}

SavedInit ==
    /\ mem8 = [p \in SavedPages |-> 0] /\ registers = 0
    /\ device_state \in [AllDevices -> {Absent, 0}]
    /\ file = << >> /\ kept = << >> /\ outcome = "none"

-----------------------------------------------------------------------------
(* What is saved of the machine.                                           *)

\* The place of page p in the packed memory: behind the packed pages before it.
PackedPage(pages, p) == Cardinality({q \in pages : q < p}) + 1

\* pack_memory: Bitmap.set for each page that is not zero, and those pages.
NonZero == {p \in SavedPages : mem8[p] # 0}
PackedMemory ==
    [i \in 1 .. Cardinality(NonZero) |-> mem8[CHOOSE p \in NonZero : PackedPage(NonZero, p) = i]]
PackedBitmap ==
    [b \in 1 .. (NPages + ByteBits - 1) \div ByteBits |->
        {p % ByteBits : p \in {q \in NonZero : q \div ByteBits = b - 1}}]

DeviceArray(d) ==
    IF device_state[d] = Absent THEN << >> ELSE [i \in 1 .. DeviceBytes[d] |-> device_state[d]]

\* save_object numbers the arrays in the order get_state lists them; a device that
\* is absent has none and is left empty here.
SavedBuffers == [d \in AllDevices |-> DeviceArray(d)] \o <<PackedMemory, PackedBitmap>>

RoundUp(n) == ((n + Alignment - 1) \div Alignment) * Alignment

\* The offset of each array among the arrays, each starting aligned.
BufferOffsets(buffers) ==
    LET at[i \in 1 .. Len(buffers) + 1] ==
            IF i = 1 THEN 0 ELSE at[i - 1] + RoundUp(Len(buffers[i - 1]))
    IN  at

\* save_state, with a description of n bytes.  A byte that no array sets is "pad".
SaveState(n) ==
    LET buffers == SavedBuffers
        at == BufferOffsets(buffers)
        start == RoundUp(HeaderBytes + n)
        Cell(k) == LET In(i) == k \in start + at[i] .. start + at[i] + Len(buffers[i]) - 1
                   IN  IF \E i \in DOMAIN buffers : In(i)
                       THEN LET i == CHOOSE j \in DOMAIN buffers : In(j)
                            IN  buffers[i][k - start - at[i] + 1]
                       ELSE "pad"
    IN  [info_length |-> n,
         buffer_infos |-> [i \in DOMAIN buffers |-> [offset |-> at[i], length |-> Len(buffers[i])]],
         absent |-> {d \in AllDevices : device_state[d] = Absent},
         registers |-> registers,
         bytes |-> [k \in 0 .. start + at[Len(buffers) + 1] - 1 |-> Cell(k)]]

-----------------------------------------------------------------------------
(* The two ways to cut it up again.                                        *)

Slice(f, from, length) == [i \in 1 .. length |-> f.bytes[from + i - 1]]

RawBuffers(f) ==
    LET start == RoundUp(HeaderBytes + f.info_length)
    IN  [i \in DOMAIN f.buffer_infos |->
            Slice(f, start + f.buffer_infos[i].offset, f.buffer_infos[i].length)]

\* The padding before an array, wherever the stream stands.
FrontPadding(position) == RoundUp(position) - position

\* position before each array; the pieces in which a long one is read come to the same.
StreamPositions(f) ==
    LET position[i \in 1 .. Len(f.buffer_infos) + 1] ==
            IF i = 1 THEN HeaderBytes + f.info_length
            ELSE position[i - 1] + FrontPadding(position[i - 1]) + f.buffer_infos[i - 1].length
    IN  position

StreamBuffers(f) ==
    LET position == StreamPositions(f)
    IN  [i \in DOMAIN f.buffer_infos |->
            Slice(f, position[i] + FrontPadding(position[i]), f.buffer_infos[i].length)]

-----------------------------------------------------------------------------
(* The machine restored.                                                   *)

\* Bitmap.get.
InBitmap(bitmap, p) == p % ByteBits \in bitmap[p \div ByteBits + 1]

\* A mutant of Unpacked: memory is not zeroed first.
UnpackedOver(bitmap, packed) ==
    LET pages == {p \in SavedPages : InBitmap(bitmap, p)}
    IN  [p \in SavedPages |-> IF p \in pages THEN packed[PackedPage(pages, p)] ELSE mem8[p]]

\* unpack_memory: zero_memory, and the next packed page for each bit set.
Unpacked(bitmap, packed) ==
    LET pages == {p \in SavedPages : InBitmap(bitmap, p)}
    IN  [p \in SavedPages |-> IF p \in pages THEN packed[PackedPage(pages, p)] ELSE 0]

\* set_state: the processor, the devices this machine has, in order, and memory
\* last.  A device whose state is absent throws, and leaves what comes after it.
SetState(f, buffers) ==
    LET mine == {d \in AllDevices : device_state[d] # Absent}
        missing == {d \in mine : d \in f.absent}
        reached == IF missing = {} THEN mine
                   ELSE {d \in mine : \A m \in missing : d < m}
    IN  /\ registers' = f.registers
        /\ device_state' = [d \in AllDevices |-> IF d \in reached THEN buffers[d][1] ELSE device_state[d]]
        /\ IF missing = {}
           THEN /\ mem8' = Unpacked(buffers[Len(buffers)], buffers[Len(buffers) - 1])
                /\ outcome' = "restored"
           ELSE outcome' = "torn" /\ UNCHANGED mem8

RestoreRaw ==
    /\ file # << >>
    /\ SetState(file, RawBuffers(file))
    /\ UNCHANGED <<file, kept>>

RestoreCompressed ==
    /\ file # << >>
    /\ SetState(file, StreamBuffers(file))
    /\ UNCHANGED <<file, kept>>

\* read_state_header: of another version, cut short or not a state at all.
RestoreRefused ==
    /\ outcome' = "refused"
    /\ UNCHANGED <<machine, file, kept>>

-----------------------------------------------------------------------------

Save ==
    /\ \E n \in InfoLengths : file' = SaveState(n)
    /\ kept' = [mem8 |-> mem8, device_state |-> device_state, registers |-> registers]
    /\ UNCHANGED <<machine, outcome>>

\* The guest runs on.
GuestRunsOn ==
    /\ \/ \E p \in SavedPages : mem8' = [mem8 EXCEPT ![p] = 1 - @] /\ UNCHANGED <<device_state, registers>>
       \/ \E d \in AllDevices : /\ device_state[d] # Absent
                                /\ device_state' = [device_state EXCEPT ![d] = 1 - @]
                                /\ UNCHANGED <<mem8, registers>>
       \/ registers' = 1 - registers /\ UNCHANGED <<mem8, device_state>>
    /\ outcome' = "none"
    /\ UNCHANGED <<file, kept>>

\* Another page, perhaps with other devices; the host has kept the file.
NewPage ==
    /\ mem8' = [p \in SavedPages |-> 0] /\ registers' = 0
    /\ device_state' \in [AllDevices -> {Absent, 0}]
    /\ outcome' = "none"
    /\ UNCHANGED <<file, kept>>

SavedNext ==
    \/ Save \/ RestoreRaw \/ RestoreCompressed \/ RestoreRefused
    \/ GuestRunsOn \/ NewPage

SavedSpec == SavedInit /\ [][SavedNext]_saved_vars

-----------------------------------------------------------------------------
(* Properties.                                                             *)

\* A machine restored is the machine that was saved, from a file and from its
\* compressed form alike, whatever it held before and whatever the lengths of
\* the description and of the arrays before one.
RestoredIsSaved ==
    outcome = "restored" =>
        /\ mem8 = kept.mem8 /\ registers = kept.registers
        /\ \A d \in AllDevices :
            device_state[d] # Absent => device_state[d] = kept.device_state[d]

=============================================================================
