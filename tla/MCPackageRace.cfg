CONSTANTS
    Builder = {b1, b2}
    NumFiles = 1
    NumCommits = 2
    NumForeign = 1
    MaxLoss = 0
    MaxEdits = 2
    Faults = {"error", "crash"}
    Moves = {"demo", "commit", "place"}
    Other = Other
    None = None
SPECIFICATION Spec
SYMMETRY Symmetric
INVARIANTS PublishedWhole ReportedStands OneCreator NoStagingLeft
PROPERTIES PublishedStays ImplementsStore
