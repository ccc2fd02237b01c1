SPECIFICATION Spec
CONSTANTS
  t1 = t1
  t2 = t2
  BufferIds <- MCBufferIds
  ImageIds <- MCImageIds
  Threads <- MCThreads
  Kinds <- MCKinds
  Required <- MCRequired
  AllocFails = TRUE
  MaxAllocations = 4
SYMMETRY Symmetry
INVARIANTS TypeOK ImagesOwnBuffers NothingLeft FollowsLiveMemory
\* The client stops after MaxAllocations.
CHECK_DEADLOCK FALSE
