SPECIFICATION Spec
CONSTANTS
    Workspaces = {w1, w2}
    Lifecycle = Lifecycle
    Maintenance = Maintenance
    None = None
    MaxRunning = 2
    Pool = 3
    MinShare = 1
    Inputs = {TRUE}
    Devcontainer = {FALSE}
    Faults = {"crash", "maintenance", "provider"}
    MaxFaults = 1
SYMMETRY Symmetry
INVARIANTS
    CapacityNotExceeded
    RecordedQuotaIsUpperBound
    PrivateCopyIsFresh
PROPERTIES
    ImplementsLifecycle
