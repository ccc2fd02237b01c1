SPECIFICATION RefSpec
CONSTANTS
  Surfaces <- MCSurfaces
  Fds <- MCFds
  Kinds = {picture}
  Required = {picture}
  SliceNeeds = {picture}
  StartCode = TRUE
  Faults <- MCFaults
  MaxPictures = 4
INVARIANTS OwnPicture EndedCanBeShown NoCrash OnlyEarlySyncFails ReferencesFound MissingFindsNothing
PROPERTIES ImplementsStore EveryPictureShown
\* The client stops after MaxPictures, or when every surface was lost to a
\* failure.
CHECK_DEADLOCK FALSE
