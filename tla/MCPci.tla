------------------------------- MODULE MCPci -------------------------------
(* Cards of the machine, for Pci.  Ports are in blocks of 16, as they are   *)
(* in the table from 300h on, with the unused ones between left out.        *)
EXTENDS Pci, TLC

\* A network card (300h, below the ports that move), the balloon's ports (D800h)
\* and the bus master registers of one IDE channel (B400h).
CardNumbers == {5, 11, 30}
CardSizes == (5 :> 2) @@ (11 :> 2) @@ (30 :> 1)
CardOriginals == (5 :> 0) @@ (11 :> 2) @@ (30 :> 4)
CardPins == (5 :> 1) @@ (11 :> 1) @@ (30 :> 1)
CardPool == {6, 8}

\* The two IDE channels: both are made with their bus master registers at B400h.
ChannelNumbers == {30, 31}
ChannelSizes == (30 :> 1) @@ (31 :> 1)
ChannelOriginals == (30 :> 0) @@ (31 :> 0)
ChannelPins == (30 :> 1) @@ (31 :> 1)
ChannelPool == {1, 2, 3}
=============================================================================
