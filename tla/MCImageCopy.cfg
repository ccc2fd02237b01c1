SPECIFICATION Spec
CONSTANTS
  MaxSize = 12
  Blocks <- MCBlocks
  EvenSizes = TRUE
  Formats <- MCFormats
INVARIANTS ReadsInside ImageFilled ExportedRowsFound
\* One image is made of each surface.
CHECK_DEADLOCK FALSE
