SPECIFICATION Spec
CONSTANTS
  SIZE = 24
  FORMATTED = 20
  INPUT = 8
  OUTPUT = 14
  CHUNK = 2
  Chunks <- MCChunks
  LIMIT = 14
  CarefulUse = FALSE
PROPERTY DurableInput
