SPECIFICATION FairSpec
CONSTANTS
  Ticks <- MCTicks
  MaxPending = 3
  None = None
INVARIANTS LiveTick
PROPERTIES RefinesMainLoop StopTakesEffect GuestRuns
