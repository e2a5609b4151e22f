SPECIFICATION Spec
CONSTANTS
  near = near
  far = far
  Rows = {1, 2, 3}
  Vectors = {near, far}
  None = None
  NoRow = 0
  ChunkSize = 2
  MaxChunk = 3
  Distance <- MCDistance
INVARIANTS TypeOK PositionsAgree NoEmptyChunk SearchFindsTheNearest
PROPERTIES ImplementsVectorMap
CHECK_DEADLOCK FALSE
