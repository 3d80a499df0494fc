SPECIFICATION Spec
CONSTANTS
  Words <- MCWords
  Names <- MCNames
  MaxBlocks = 3
  MaxLinks = 2
INVARIANTS
  ReadsAsDrawn
PROPERTIES
  Settles
CHECK_DEADLOCK FALSE
