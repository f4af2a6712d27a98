SPECIFICATION Spec
CONSTANTS
  N = 3
  Newlines <- MCNewlines
  CHUNK = 2
  EPSIZE = 3
  GREETING = 1
  HEADER = 1
  MESSAGE = 2
  CALLS = 2
  INTERRUPTS = 1
INVARIANTS
  TypeOK
  StoredInOrder
  PrintedArrives
PROPERTIES
  CallEnds
  BankIsFlushed
