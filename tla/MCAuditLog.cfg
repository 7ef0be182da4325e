SPECIFICATION Spec
CONSTANTS
    Loggers = {l1, l2}
    MaxEntries = 3
    MaxRotates = 1
    MaxEpochs = 4
    MaxCrashes = 1
    MaxFaults = 1
    MaxLines = 3
    NoFile = NoFile
    Free = Free
    NoEntry = NoEntry
CHECK_DEADLOCK FALSE
INVARIANTS
    EntriesPersist
    SealRecordsTruthful
    ChainComplete
PROPERTIES
    ImplementsEpochLog
    RotationsSettle
