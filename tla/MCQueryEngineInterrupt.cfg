CONSTANTS
    w1 = w1
    w2 = w2
    s1 = s1
    s2 = s2
    Workers <- TwoWorkers
    NumPipelines = 2
    Succ <- ChainSucc
    Sources <- OneSource
    SourceSucc <- ChainSources
    AdmissionSize = 1
    MaxBuffers = 1
    MaxRepeats = 1
    MayStop = TRUE
    MayFail = TRUE
SPECIFICATION Spec
SYMMETRY WorkerSymmetry
INVARIANTS
    PendingTasksExact
    StopIsExclusive
    EndsAsReported
PROPERTIES
    TerminationIsFinal
CHECK_DEADLOCK FALSE
