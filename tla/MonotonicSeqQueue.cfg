SPECIFICATION FairSpec
CONSTANTS
    Threads = {t1, t2}
    NumSeqs = 4
    BlockSize = 2
INVARIANT
    WalksFindBlock
PROPERTIES
    ImplementsGaplessPrefix
    ReachesEnd
