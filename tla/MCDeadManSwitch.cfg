SPECIFICATION Spec
CONSTANTS
    Callers = {c1, c2}
    Monitors = {m1, m2}
    Timeouts = {1}
    MaxAge = 1
    NoThread = NoThread
INVARIANTS
    OneMonitor
PROPERTIES
    SilenceIsNoticed
    HaltDisarms
