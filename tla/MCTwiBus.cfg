SPECIFICATION Spec
CONSTANTS
  NONE = 3
  SIZE = 8
  SLA_R = 3
  TIMEOUT = 2
  Writes <- MCWrites
  Reads <- MCReads
  Huffman <- MCHuffman
INVARIANTS
  TypeOK
  ReadOfFram
  ReadsOneResult
PROPERTIES
  StoresInOrder
  CallReturns
\* A job may stop the worker, and a held clock the controller.
CHECK_DEADLOCK FALSE
