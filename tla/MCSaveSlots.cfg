CONSTANTS
    Procs = {p1, p2}
    Saves = {old, new}
    Missing = Missing
    NoFile = NoFile
SPECIFICATION Spec
SYMMETRY SymmetricProcs
PROPERTIES
    LookIsLinearizable
    IsAtomicStore
