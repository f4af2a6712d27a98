SPECIFICATION Spec
CONSTANTS
  w1 = w1
  w2 = w2
  w3 = w3
  Workers <- MCWorkers
  BASE = 32
  FRAM = 34
INVARIANTS
  TypeOK
  UniqueAddresses
  NoGaps
PROPERTIES
  ScanIsComplete
  AddressingEnds
  ScanEnds
