SPECIFICATION PipelineSpec
CONSTANTS
    Workers = {w1, w2, w3}
    Collectors = {c1, c2}
    InputChunks <- MCInputChunks
    MaxFull = 1
    NodeSize = 1
    CounterRange = 8
SYMMETRY Interchangeable
INVARIANTS
    ChunksComplete
    CleanupIsLast
    CollectedWhole
