SPECIFICATION Spec
CONSTANTS
    Workspaces = {w1, w2}
    Lifecycle = Lifecycle
    Maintenance = Maintenance
    None = None
    MaxRunning = 1
    Pool = 1
    MinShare = 1
    Inputs = {TRUE, FALSE}
    Devcontainer = {TRUE, FALSE}
    Faults = {"crash", "store", "provider", "local", "disk", "quota"}
    MaxFaults = 2
SYMMETRY Symmetry
INVARIANTS
    LiveProviderIsAccounted
    LiveRowHasProvider
    NoOrphanedProvider
    InputsDurableBeforeProvider
    AtMostMaxRunning
PROPERTIES
    DeletionIsFinal
