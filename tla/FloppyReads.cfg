\* A driver of the floppy controller; the count of a channel is left as it is here.
SPECIFICATION FloppySpec
CONSTANT CountWrap = 16
INVARIANT TransfersAreMade
