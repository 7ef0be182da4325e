SPECIFICATION Spec
CONSTANTS
    Keys = {k1, k2}
    Values = {v1, v2}
    Passwords = {p1, p2}
    NoValue = NoValue
    NoFile = NoFile
    Noise = Noise
    NoSession = NoSession
    NoRequest = NoRequest
SYMMETRY Symmetry
INVARIANTS
    NukeShredsAll
