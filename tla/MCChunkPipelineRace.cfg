SPECIFICATION PipelineSpec
CONSTANTS
    Workers = {w1, w2}
    Collectors = {c1}
    InputChunks <- MCInputChunks
    MaxFull = 1
    NodeSize = 2
    CounterRange = 8
INVARIANT CompleteMeansAll
