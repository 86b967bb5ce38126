--------------------------- MODULE MCBlockBuffer ---------------------------
(* Instances of BlockBuffer for TLC.                                       *)
EXTENDS BlockBuffer, TLC

CONSTANTS w1, w2, i0, i1, i2, i3, s1, s2

MCVals == {w1, w2}
OneVal == {w1}
MCSlots == {s1, s2}
OneSlot == {s1}
Image2 == (0 :> i0) @@ (1 :> i1)
Image3 == Image2 @@ (2 :> i2)
Image4 == Image3 @@ (3 :> i3)
Symmetry == Permutations(MCVals)
=============================================================================
