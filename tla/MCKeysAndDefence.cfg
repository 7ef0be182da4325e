SPECIFICATION MCSpec
CONSTANTS
    Passwords = {right, terminal, duress}
    Terminal = terminal
    Duress = duress
    Sizes = {2, 8, 9}
    Names = {n1, n2}
    Ids = {i1}
    Callbacks = 2
    Failing = {1}
    Shredder = 2
    MaxChanges = 1
    w = w
    x = x
    y = y
    z = z
    shared = shared
    own = own
    Blocks = {w, x, y, z}
    Pages = {shared, own}
    PageOf <- Placed
    PinLimit = 1
    Manifests <- AllManifests
    Metrics <- SomeMetrics
    MaxReloads = 2
    MaxEvaluations = 2
INVARIANTS
    OwnerIsAdmitted
    NukeReachesLedger
    KeysArePinned
    PinsAreReturned
    AlertsAreOfOneManifest
    NotFrozenForAuth
CHECK_DEADLOCK FALSE
