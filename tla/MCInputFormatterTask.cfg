SPECIFICATION Spec
CONSTANTS
  Bits = 2
  InitialBitmaps = 2
  MaxBitmaps = 4
  ResizeRequestLimit = 2
  Workers = {w1, w2, w3}
  TuplesPerBuffer = 2
  Length = 6
  Streams <- MCStreams
INVARIANTS TuplesExactlyOnce ChunksDistinct BuffersReturned
PROPERTY AllFormatted
