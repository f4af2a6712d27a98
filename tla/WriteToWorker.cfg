SPECIFICATION Spec
CONSTANTS
  NONE = 3
  SIZE = 8
  SLA_R = 3
  TIMEOUT = 2
  Writes <- MCWrites
  Reads <- MCReads
  Huffman <- MCHuffman
INVARIANT
  AtOffset
\* A job may stop the worker, and a held clock the controller.
CHECK_DEADLOCK FALSE
