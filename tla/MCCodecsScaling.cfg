SPECIFICATION Spec
CONSTANTS
  s1 = s1
  s2 = s2
  s3 = s3
  s4 = s4
  s5 = s5
  Surfaces <- MCSurfaces
  Size = 4
  MaxRefs = 2
  MaxAge = 7
  MaxSubmitted = 5
  Slices <- MCSlices
  Mpeg2Pictures <- MCMpeg2Pictures
  Vp8Pictures <- MCVp8Pictures
  Vp9Pictures <- MCVp9Pictures
  MaxPictures = 3
SYMMETRY Symmetry
INVARIANT ScalingListsInOrder
CHECK_DEADLOCK FALSE
