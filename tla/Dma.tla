-------------------------------- MODULE Dma --------------------------------
(***************************************************************************)
(* The DMA controller, dma.ts, as its two users see it: the floppy         *)
(* controller reads and writes whole transfers on channel 2, the sound     *)
(* card takes block after block of a buffer that may start over.           *)
(*                                                                         *)
(* A channel is a record: addr, in transfers from where it was programmed, *)
(* count, the transfers left less one, init, what count was programmed     *)
(* with, and auto, whether it starts over.  A transfer is of unit bytes,   *)
(* two on channels 5 to 7.  A driver programs a channel with no other in   *)
(* between, so the byte that comes next is left out.                       *)
(***************************************************************************)
EXTENDS Integers

CONSTANT CountWrap \* 2^16

VARIABLE channel_pagehi \* there is an array of high page bytes

ASSUME DmaAssumption == CountWrap \in Nat /\ CountWrap > 1

\* The constructor creates channel_page twice and channel_pagehi never.
DmaInit == channel_pagehi = FALSE

\* address_get_8bit reads it, so do_read and do_write throw without.
CanTransfer == channel_pagehi

\* set_state, of a state saved by this build or by one that creates the array.
DmaRestored == channel_pagehi' \in {channel_pagehi, TRUE}

\* port_addr_write, port_count_write (both bytes of each) and port_mode_write.
Programmed(size, auto) == [addr |-> 0, count |-> size - 1, init |-> size - 1, auto |-> auto]

\* do_write of n transfers, the channel after it: as far as the count goes, and
\* from the start again as often as more is wanted.  do_write calls itself for the
\* rest; every call but the first begins at the start and takes a whole buffer, so
\* what the last one takes is a remainder.
DoWrite(ch, n) ==
    LET Given(c)    == (c.count + 1) % CountWrap
        Moved(c, k) == [c EXCEPT !.addr = @ + k, !.count = (@ - k) % CountWrap]
        again       == [ch EXCEPT !.addr = 0, !.count = ch.init]
    IN  IF n < Given(ch) THEN Moved(ch, n)
        ELSE IF ~ ch.auto THEN Moved(ch, Given(ch))
        ELSE Moved(again, (n - Given(ch)) % Given(again))

=============================================================================
