SPECIFICATION Spec
CONSTANTS
    Names = {m, n}
    MaxProcesses = 2
    Threads = {t, u}
    MaxCalls = 2
INVARIANTS
    AnswersMatch
    ShutdownIsComplete
PROPERTIES
    EveryCallEnds
    ShutdownEnds
CHECK_DEADLOCK FALSE
