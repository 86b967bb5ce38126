\* A picture of four groups in two banks of two addresses: rows of one and of two groups, pages
\* at 0 and 1.  A ring of five pages and frames of one to three.  Three cards on the bus.  Two
\* pins, three vectors and handlers three deep.  Three pages of memory, two to a byte.
SPECIFICATION BoardSpec
CONSTANTS
  N = 4
  BankSize = 2
  Banks = {1, 2}
  Scales = {1, 2}
  Offsets = {1, 2}
  SvgaWidth = 2
  Starts = {0, 1}
  PStart = 1
  PStop = 6
  PageSize = 3
  Lengths = {1, 2, 4}
  MaxFrames = 4
  Cards <- CardNumbers
  RangeSize <- CardSizes
  Original <- CardOriginals
  NPorts = 12
  FirstMovable = 2
  Pool <- CardPool
  Pin <- CardPins
  PciLines = {10, 11}
  Pins = {9, 11}
  LevelVectors = {49, 81}
  EdgeVectors = {65}
  Priorities = {0, 64}
  MaxDepth = 3
  NPages = 3
  ByteBits = 2
  DeviceBytes <- DeviceLengths
  Alignment = 2
  HeaderBytes = 4
  InfoLengths = {3, 4}
INVARIANTS WrongIsMarked LayersFollow RangesDecoded LineUpWhileAsserted RemoteIrrReleased LevelNotLost NoLostInterrupt HandlersMatch RestoredIsSaved RingDelivers FrameAnnounced
PROPERTY FillShowsPlanes
