SPECIFICATION Spec
CONSTANTS
    Workers = {0, 1}
    Setups <- MCSetups
    Key <- MCKey
    Value <- MCValue
    Hash <- MCHash
    Modulus = 8
    PageCapacity = 2
    NumberOfBuckets = 1
INVARIANTS
    WindowsComplete
    SlicesOutliveUse
    ResultsExact
PROPERTY
    EveryWindowProbed
