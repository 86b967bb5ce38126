SPECIFICATION Ne2kSpec
CONSTANTS
  PStart = 1
  PStop = 6
  PageSize = 3
  Lengths = {1, 2, 4}
  MaxFrames = 3
INVARIANTS UnreadKept
