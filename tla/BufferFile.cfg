SPECIFICATION FairSpec
CONSTANTS
  NBlocks = 2
  Kind = "file"
  Chunk = 0
  Image <- Image2
  Vals <- MCVals
  Slots <- MCSlots
  None = None
  w1 = w1
  w2 = w2
  i0 = i0
  i1 = i1
  i2 = i2
  i3 = i3
  s1 = s1
  s2 = s2
INVARIANTS CacheAgrees
PROPERTIES RefinesDisk EveryReadAnswered
