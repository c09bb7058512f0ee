CONSTANTS
    Builder = {b1, b2}
    NumFiles = 1
    NumCommits = 1
    NumForeign = 0
    MaxLoss = 1
    MaxEdits = 0
    Faults = {"error", "interrupt", "cleanup", "crash"}
    Moves = {}
    Other = Other
    None = None
SPECIFICATION FairSpec
INVARIANTS TypeOK PublishedWhole CreatedSurvives
PROPERTIES RebuildSucceeds
