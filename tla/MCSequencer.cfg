CONSTANTS
    Threads = {t1, t2, t3}
    NumChunks <- MCNumChunks
SPECIFICATION FairSpec
PROPERTIES
    ImplementsOrderedStream
    AllProcessed
