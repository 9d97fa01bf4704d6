SPECIFICATION Spec
CONSTANTS
  Segments = {b1, b2, b3}
  Sources = {s1, s2}
  Workers = {w1, w2}
  LocalBuffers = 1
  Successors = 1
  ChunkSize = 3
  MaxFills = 1
  MaxChildren = 1
  MaxChunks = 2
SYMMETRY Interchangeable
INVARIANTS InvariantsHold ReferencesExact OnePlace ChunksCounted
