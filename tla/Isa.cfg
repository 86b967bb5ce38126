\* Queues of four bytes; a port with two bytes each way and one modem line; a clock of five
\* steps, with a period shorter and one longer than a step, and an alarm at any of them; a
\* counter of two bytes of one bit; buffers of three and four samples, blocks of two.
SPECIFICATION IsaSpec
CONSTANTS
  Size = 4
  MaxExpected = 2
  MaxInput = 2
  MaxToSend = 2
  Lines = {dcd}
  dcd = dcd
  Step = 2
  Periods = {1, 3}
  MaxSleep = 5
  MaxTime = 10
  Byte = 2
  Tick = 2
  PmTicks = 3
  PmUnits = 2
  Imprecision = 2
  LongestSleep = 5
  LastTime = 7
  CountWrap = 16
  BlockSamples = 2
  LeastBlock = 2
  Buffers = {3, 4}
  Counts = {2, 3}
  MaxPlayed = 12
INVARIANTS OfferMatches NoStuckByte PortIsServed StatusIsTrue KeepsTime PitKeepsTime   PlaysInTime
PROPERTIES StatusStable PmTimerTrue
