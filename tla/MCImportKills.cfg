CONSTANTS
    Importer = {r1, r2, r3}
    Loc = {source_models, work}
    source_models = source_models
    work = work
    LocOf <- LocOfTwo
    RecordLoc = work
    NumCategories = 2
    NumPins = 1
    NumForeign = 1
    MaxRoot = 1
    MaxGen = 1
    MaxWorkspace = 1
    Modes = {"copy"}
    Faults = {"crash"}
    Moves = {"place"}
    Other = Other
    None = None
SPECIFICATION Spec
SYMMETRY Symmetric
INVARIANTS ReportedStands RecordBacked
PROPERTIES OnlyOwnTreesRemoved RerunReuses ImplementsStore
