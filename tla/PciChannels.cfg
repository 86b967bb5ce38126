\* A hard disk and a CD drive, each on a channel of its own.
SPECIFICATION RangesSpec
CONSTANTS
  Cards <- ChannelNumbers
  RangeSize <- ChannelSizes
  Original <- ChannelOriginals
  NPorts = 6
  FirstMovable = 0
  Pool <- ChannelPool
  Pin <- ChannelPins
  PciLines = {14}
INVARIANT OriginalDoesNotMatter
