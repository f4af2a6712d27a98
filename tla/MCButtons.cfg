SPECIFICATION Spec
CONSTANT HOLD = 2
INVARIANTS
  TypeOK
  StatusIsTrue
PROPERTIES
  FlagsExclude
  HoldingFormats
  LongPressOfC
