SPECIFICATION MCSpec
CONSTANTS
    a = a
    b = b
    A = A
    B = B
    Secrets = {a, b}
    Tenants = {A, B}
    TenantOf <- TwoTenants
    Payloads = {lasting, expired}
    Mortal = {expired}
    Empty = Empty
    Absent = Absent
    Torn = Torn
    Noise = Noise
    MaxParts = 2
    Workers = {w1, w2}
    MaxSaves = 2
    MaxFaults = 1
    Sizes = {0, 1, 3, 4, 5, 9, 67}
    Logical = 4
    Physical = {1, 4, 64}
    BaseMin = 1
    BaseMax = 4
    HighMax = 6
    RampUp = 10
    Forced = {2}
    MaxStreams = 2
SYMMETRY Symmetry
INVARIANTS
    SavedIsReadable
    IndexedIsStored
    ReadsAreWhole
    PurgeHitsExpired
    NothingLost
    CutsAreFixed
PROPERTIES
    StreamsEnd
CHECK_DEADLOCK FALSE
