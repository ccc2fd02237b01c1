SPECIFICATION Spec
CONSTANTS
  Surfaces <- MCSurfaces
  Fds <- MCFds
  Kinds = {slice}
  Required = {slice}
  SliceNeeds = {slice}
  StartCode = TRUE
  Faults <- MCFaults
  MaxPictures = 2
INVARIANTS TypeOK RequestsOwned RequestInFlight SourceBehindDestination
\* The process is gone after a crash.
CHECK_DEADLOCK FALSE
