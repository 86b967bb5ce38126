SPECIFICATION LiveSpec
CONSTANTS
  Drives = {"master", "slave"}
  Cds = {"master"}
  Empty = {}
  Sectors = 2
  Counts = {1, 2}
  CountWrap = 4
  LbaWrap = 8
  Offered = {}
  Prdts = {p1, p2}
  Ids = {i1, i2}
  None = None
  Requests <- LiveRequests
  Patient = TRUE
INVARIANT DoneIsComplete
PROPERTIES RequestEnds
