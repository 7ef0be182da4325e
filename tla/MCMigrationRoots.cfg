SPECIFICATION Spec
CONSTANTS
    Chunks = {a, b}
    Missing = Missing
    MaxLen = 4
    MaxEdits = 2
    Files <- AllFiles
SYMMETRY Symmetry
INVARIANTS
    EqualRootsEqualFiles
