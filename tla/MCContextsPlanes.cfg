SPECIFICATION Spec
CONSTANTS
  Surfaces <- MCSurfaces
  ContextIds <- MCContextIds
  Faults <- NoFault
  Fewer = FALSE
  Derived = FALSE
  MaxGeneration = 5
INVARIANTS PlanesMatch
\* The process is gone after a crash, the bound ends the others.
CHECK_DEADLOCK FALSE
