CONSTANTS
    Run = {r1, r2}
    NumRepositories = 1
    NumPins = 1
    NumForeign = 0
    Faults = {"error"}
    Moves = {}
    MaxEdits = 0
SPECIFICATION Spec
PROPERTIES OnlyEditsRejected
