SPECIFICATION CodecSpec
CONSTANTS
  Alphabet <- SteepAlphabet
  Blocks <- SteepBlocks
  WORD = 65536
  ShiftResults <- MCShiftResults
INVARIANT RoundTrip
CHECK_DEADLOCK FALSE
