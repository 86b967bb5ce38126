SPECIFICATION DriverSpec
CONSTANTS
  Drives = {"master"}
  Cds = {}
  Empty = {}
  Sectors = 4
  Counts = {1, 2, 4}
  CountWrap = 4
  LbaWrap = 8
  Offered = {}
  Prdts = {p1, p2}
  Ids = {i1, i2}
  None = None
  Requests <- OneDiskRequests
  Patient = FALSE
SYMMETRY Symmetry
INVARIANTS IoBookkeeping PortShowsRequest DoneIsComplete
PROPERTIES NoLateCompletion MemoryIsRequested TableKept ServesRequests
