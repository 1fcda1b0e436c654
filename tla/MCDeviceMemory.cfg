\* Two nodes of four bytes, the first half taken by the aperture; requests
\* that are empty, need rounding, fill a node, and are too big.
SPECIFICATION Spec
CONSTANTS
  ApertureSize = 2
  NodeSize = 4
  Align = 2
  MaxHandles = 2
  Any = Any
  Sizes <- MCSizes
  Extents <- MCExtents
  MaxGen = 2
INVARIANTS Isolation ReadsOwnBlock BlocksPlaced SpaceAddsUp
