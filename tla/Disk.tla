-------------------------------- MODULE Disk --------------------------------
(***************************************************************************)
(* What a disk controller (ide.ts, floppy.ts) is promised by a disk image: *)
(* an array of blocks that writes change at once, reads that are answered  *)
(* with the content of the moment of the answer, and a saved state that    *)
(* brings back the whole content.  The buffers of buffer.ts implement it   *)
(* without ever holding the whole image (module BlockBuffer).              *)
(***************************************************************************)
EXTENDS Integers, Sequences

CONSTANTS NBlocks,   \* number of blocks of the image
          Data,      \* the possible contents of one block
          Image,     \* the content of the image file
          Slots,     \* requests that may be outstanding at the same time
          None       \* no request

VARIABLES disk,      \* the content a read sees
          waiting,   \* the request of each slot that is not answered yet
          answer,    \* the last answer given to a device
          saved      \* the content of the last saved state

vars == <<disk, waiting, answer, saved>>

Blocks == 0 .. NBlocks - 1

\* A range of blocks inside the image, as the devices ask for it.
Requests == {r \in [start : Blocks, len : 1 .. NBlocks] : r.start + r.len <= NBlocks}

Content(r) == [i \in 1 .. r.len |-> disk[r.start + i - 1]]

Init == /\ disk = Image
        /\ waiting = [s \in Slots |-> None]
        /\ answer = None
        /\ saved = Image

Write(r, data) ==
    /\ disk' = [b \in Blocks |-> IF b \in r.start .. r.start + r.len - 1
                                 THEN data[b - r.start + 1] ELSE disk[b]]
    /\ UNCHANGED <<waiting, answer, saved>>

Request(s, r) ==
    /\ waiting[s] = None
    /\ waiting' = [waiting EXCEPT ![s] = r]
    /\ UNCHANGED <<disk, answer, saved>>

\* The answer to a request made in an earlier step, and to one made in this step.
Answer(s) ==
    /\ waiting[s] # None
    /\ waiting' = [waiting EXCEPT ![s] = None]
    /\ answer' = [slot |-> s, data |-> Content(waiting[s])]
    /\ UNCHANGED <<disk, saved>>

AnswerNow(s, r) ==
    /\ waiting[s] = None
    /\ answer' = [slot |-> s, data |-> Content(r)]
    /\ UNCHANGED <<disk, waiting, saved>>

Save == saved' = disk /\ UNCHANGED <<disk, waiting, answer>>

Restore == disk' = saved /\ UNCHANGED <<waiting, answer, saved>>

Next == \/ \E r \in Requests :
              \/ \E data \in [1 .. r.len -> Data] : Write(r, data)
              \/ \E s \in Slots : Request(s, r) \/ AnswerNow(s, r)
        \/ \E s \in Slots : Answer(s)
        \/ Save
        \/ Restore

Spec == Init /\ [][Next]_vars

=============================================================================
