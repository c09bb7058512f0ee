CONSTANTS
    Importer = {r1}
    Loc = {source_models, work}
    source_models = source_models
    work = work
    LocOf <- LocOfTwo
    RecordLoc = work
    NumCategories = 2
    NumPins = 1
    NumForeign = 1
    MaxRoot = 2
    MaxGen = 2
    MaxWorkspace = 2
    Modes = {"copy", "hardlink"}
    Faults = {"error"}
    Moves = {"root", "parent", "workspace", "place"}
    Other = Other
    None = None
SPECIFICATION Spec
INVARIANTS FailedLeavesNothing
PROPERTIES OnlyOwnTreesRemoved SuccessVisible
