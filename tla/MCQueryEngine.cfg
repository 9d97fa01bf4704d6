CONSTANTS
    w1 = w1
    w2 = w2
    s1 = s1
    s2 = s2
    Workers <- TwoWorkers
    NumPipelines = 2
    Succ <- ChainSucc
    Sources <- TwoSources
    SourceSucc <- TwoSourcesIn
    AdmissionSize = 1
    MaxBuffers = 1
    MaxRepeats = 0
    MayStop = FALSE
    MayFail = FALSE
SPECIFICATION FairSpec
INVARIANTS
    ExecutesOnlyStarted
    EndOfStreamDrains
    NoCrash
PROPERTIES
    Terminates
