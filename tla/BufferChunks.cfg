SPECIFICATION FairSpec
CONSTANTS
  NBlocks = 4
  Kind = "part"
  Chunk = 2
  Image <- Image4
  Vals <- OneVal
  Slots <- OneSlot
  None = None
  w1 = w1
  w2 = w2
  i0 = i0
  i1 = i1
  i2 = i2
  i3 = i3
  s1 = s1
  s2 = s2
PROPERTY UnwrittenReadsExact
