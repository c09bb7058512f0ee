CONSTANTS
    Command = {c1, c2}
    NumRequests = 2
    Backends = {"rknn3", "other"}
    MaxChunks = 2
    MaxTokens = 1
    MaxTick = 1
    Faults = {"error", "interrupt", "cleanup", "crash", "power"}
    None = None
CONSTRAINT DetailsAlone
SPECIFICATION FairSpec
INVARIANTS TypeOK Released MeasuredRight OutputWhole NoDebris StatusTells
PROPERTIES CommandSucceeds ImplementsRegister
