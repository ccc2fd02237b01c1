SPECIFICATION Spec
CONSTANTS
  Surfaces <- MCSurfaces
  ContextIds <- MCContextIds
  Faults <- AllFaults
  Fewer = TRUE
  Derived = TRUE
  MaxGeneration = 5
INVARIANTS TypeOK ContextOwnsDevice CaptureIsAllocated RefsSound IdleIsClean CopiesAreSafe
\* The process is gone after a crash, the bound ends the others.
CHECK_DEADLOCK FALSE
