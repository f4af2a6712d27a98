SPECIFICATION CodecSpec
CONSTANTS
  Alphabet <- MCAlphabet
  Blocks <- MCBlocks
  WORD = 65536
  ShiftResults <- MCShiftResults
INVARIANTS
  Forest
  NodeAccounting
  TreeMemoryBound
  QueueMemoryBound
  WeightsCount
  CodecTypeOK
  ReadsWithinStream
  RoundTrip
  StreamLayout
PROPERTY
  CodecTerminates
CHECK_DEADLOCK FALSE
