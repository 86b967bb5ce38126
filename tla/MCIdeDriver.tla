---------------------------- MODULE MCIdeDriver ----------------------------
(* Small instances of IdeDriver: the requests of a guest. *)
EXTENDS IdeDriver, TLC

Request(d, cmd, start, n, limit) ==
    [drive |-> d, cmd |-> cmd, start |-> start, n |-> n, limit |-> limit]

\* What the driver asks of a disk of two sectors: everything, or a part, or what
\* is past the end.
DiskRequests(d) ==
    {Request(d, cmd, 0, 2, 0) : cmd \in ReadCommands \cup {"write", "write_multiple", "read_dma", "write_dma"}}
    \cup {Request(d, cmd, 1, 1, 0) : cmd \in {"set_multiple", "read_dma"}}

\* A disk of four sectors, the multiple commands in blocks of two; a sector past
\* the end, and a command the drive does not know.
OneDiskRequests ==
    {Request("master", cmd, 0, 2, 0) : cmd \in {"read", "write"} \cup DmaCommands}
    \cup {Request("master", cmd, 0, 4, 0) : cmd \in {"read_multiple", "write_multiple"}}
    \cup {Request("master", "set_multiple", 0, 2, 0), Request("master", "read_dma", 1, 1, 0),
          Request("master", "read", 4, 1, 0), Request("master", "unsupported", 0, 1, 0)}

\* What it asks of a CD drive; the byte count limit cuts the data into blocks.
CdReads ==
    {Request("master", "packet_read", 0, 2, limit) : limit \in 1 .. 2}
    \cup {Request("master", "packet_dma", 0, n, 1) : n \in 1 .. 2}

OtherCommands(d) ==
    {Request(d, cmd, 0, 1, 0) : cmd \in {"identify", "nondata", "reset"}}

\* A CD drive with a disk behind it: what a patient driver asks of both.
LiveRequests ==
    CdReads \cup OtherCommands("master") \cup DiskRequests("slave")

\* A disk and no slave.
NoSlaveRequests ==
    {Request("master", "read_dma", start, 2 - start, 0) : start \in 0 .. 1}
    \cup {Request("slave", "read", 0, 1, 0)}

Symmetry == Permutations(Ids)
=============================================================================
