SPECIFICATION Spec
CONSTANTS
    Values = {x, y}
    GenModulus = 4
    GenLimit = 2
    MaxLen = 3
    MaxDepth = 2
    RetainInTx = FALSE
INVARIANTS
    TypeOK
    StaleNeverResolves
    RollbackRestores
    NoGrowthBeyondPeak
    NativeRoundTrip
PROPERTIES
    ImplementsPromise
