CONSTANTS
    Run = {r1, r2}
    NumRepositories = 2
    NumPins = 2
    NumForeign = 1
    Faults = {"error", "cleanup", "crash"}
    Moves = {"edit", "source", "place"}
    MaxEdits = 1
CONSTRAINT PartsApart
SPECIFICATION FairSpec
INVARIANTS TypeOK CheckoutExact AdoptedWhole AdoptionStands NoTemporaryLeft
PROPERTIES ImplementsSlot LocalWorkKept ExistingKept BootstrapSucceeds
