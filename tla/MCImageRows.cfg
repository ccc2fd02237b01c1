SPECIFICATION Spec
CONSTANTS
  MaxSize = 12
  Blocks <- MCBlocks
  EvenSizes = TRUE
  Formats <- MCFormats
INVARIANTS RowsMatch
\* One image is made of each surface.
CHECK_DEADLOCK FALSE
