SPECIFICATION FairSpec
CONSTANTS
    Threads = {t1, t2, t3}
    Stream <- MCStream
    NodeSize = 2
    CounterRange = 4
INVARIANTS
    CompletedCorrectly
    NodeInUse
PROPERTIES
    NodesReleased
