---------------------------- MODULE DriveService ----------------------------
(***************************************************************************)
(* What a driver expects of the drives of ide.ts, whatever registers it    *)
(* uses: one request at a time is served, and its data moves once.  The    *)
(* bus master moves it as a whole, the data port one unit after the other; *)
(* a write reaches the image with its last unit, and in full.  A request   *)
(* ends when its data has moved.  One that is given up may still reach     *)
(* memory, until the channel is reset; after that it never does.           *)
(*                                                                         *)
(* IdeDriver implements this module: registers, pointers, interrupts and   *)
(* the reads of the image that are under way are its business.             *)
(***************************************************************************)
EXTENDS Integers

CONSTANTS Requests,  \* [drive, cmd, start, n]: what a driver may ask for
          Empty,     \* the drives without an image
          Sectors,   \* the size of an image
          None

VARIABLES stage,     \* "idle", "serving" or "given_up"
          request,   \* the request, or None
          moved,     \* how many of its units have moved
          memory,    \* what the bus master has last put into memory
          image      \* what has last been written to the image

vars == <<stage, request, moved, memory, image>>

PortReads == {"read", "read_multiple", "packet_read", "identify"}
PortWrites == {"write", "write_multiple", "write_multiple_ext"}
MemoryReads == {"read_dma", "packet_dma"}
MemoryWrites == {"write_dma"}
HasData == PortReads \cup PortWrites \cup MemoryReads \cup MemoryWrites

Init == /\ stage = "idle" /\ request = None /\ moved = 0
        /\ memory = None /\ image = None

Extent == [start |-> request.start, n |-> request.n]

\* There is an image, and the request is within it; the identification is not
\* on the image.
Served == /\ request.drive \notin Empty
          /\ request.cmd # "identify" => request.start + request.n <= Sectors

Submit(r) ==
    /\ stage = "idle"
    /\ stage' = "serving" /\ request' = r /\ moved' = 0
    /\ UNCHANGED <<memory, image>>

\* One unit through the data port, the next one of the request.
MoveUnit ==
    /\ stage = "serving" /\ Served
    /\ request.cmd \in PortReads \cup PortWrites
    /\ moved < request.n
    /\ moved' = moved + 1
    /\ image' = IF request.cmd \in PortWrites /\ moved' = request.n THEN Extent ELSE image
    /\ UNCHANGED <<stage, request, memory>>

\* The bus master, to memory: also after the driver has lost patience.
MoveToMemory ==
    /\ stage \in {"serving", "given_up"} /\ Served
    /\ request.cmd \in MemoryReads
    /\ moved = 0 /\ moved' = request.n
    /\ memory' = Extent
    /\ UNCHANGED <<stage, request, image>>

\* The bus master, from memory.
MoveToImage ==
    /\ stage = "serving" /\ Served
    /\ request.cmd \in MemoryWrites
    /\ moved = 0 /\ moved' = request.n
    /\ image' = Extent
    /\ UNCHANGED <<stage, request, memory>>

Leave == /\ stage' = "idle" /\ request' = None /\ moved' = 0
         /\ UNCHANGED <<memory, image>>

\* A drive without an image has refused the request; any other has served it.
Finish ==
    /\ stage = "serving"
    /\ request.drive \notin Empty /\ request.cmd \in HasData => moved = request.n
    /\ Leave

GiveUp ==
    /\ stage = "serving"
    /\ stage' = "given_up"
    /\ UNCHANGED <<request, moved, memory, image>>

Reset == stage = "given_up" /\ Leave

Next == \/ \E r \in Requests : Submit(r)
        \/ MoveUnit \/ MoveToMemory \/ MoveToImage
        \/ Finish \/ GiveUp \/ Reset

Spec == Init /\ [][Next]_vars
=============================================================================
