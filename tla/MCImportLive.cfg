CONSTANTS
    Importer = {r1, r2}
    Loc = {source_models, work}
    source_models = source_models
    work = work
    LocOf <- LocOfTwo
    RecordLoc = work
    NumCategories = 2
    NumPins = 1
    NumForeign = 0
    MaxRoot = 1
    MaxGen = 1
    MaxWorkspace = 1
    Modes = {"copy"}
    Faults = {"crash"}
    Moves = {}
    Other = Other
    None = None
SPECIFICATION FairSpec
PROPERTIES RerunRecovers SomeRunSucceeds
