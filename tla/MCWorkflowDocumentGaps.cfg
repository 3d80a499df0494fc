\* One block is named what another's identifier is.
\* Each is violated: TLC shows the first; leave the others out to see one.
SPECIFICATION Spec
CONSTANTS
  Words <- MCWords
  Names <- MCClashing
  MaxBlocks = 3
  MaxLinks = 2
INVARIANTS
  SuffixesNeverCollide
PROPERTIES
  KeepsIdentifiers
CHECK_DEADLOCK FALSE
