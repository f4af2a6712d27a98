SPECIFICATION Spec
CONSTANTS
  W = 10
  W16 = 100
  BLOCK_SIZE = 3
  BUFFER = 5
  ARRAY = 2
  START = 1
  InputEnds <- MCInputEnds
  SIZE = 12
  Written <- MCWritten
  Found <- MCFound
  Counts <- MCCounts
  Sizes <- MCSizes
INVARIANT
  HeaderTells
CHECK_DEADLOCK FALSE
