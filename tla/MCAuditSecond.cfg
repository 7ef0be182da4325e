SPECIFICATION Spec
CONSTANTS
    Loggers = {l1, l2}
    MaxEntries = 3
    MaxRotates = 1
    MaxEpochs = 4
    MaxCrashes = 0
    MaxFaults = 0
    MaxLines = 3
    NoFile = NoFile
    Free = Free
    NoEntry = NoEntry
CHECK_DEADLOCK FALSE
INVARIANTS
    EveryActionRecorded
