SPECIFICATION FairSpec
CONSTANTS
    Workspaces = {w1, w2}
    Lifecycle = Lifecycle
    Maintenance = Maintenance
    None = None
    MaxRunning = 1
    Pool = 1
    MinShare = 1
    Inputs = {FALSE}
    Devcontainer = {FALSE}
    Faults = {"crash", "provider"}
    MaxFaults = 1
PROPERTIES
    TransitionsComplete
    QueueIsServed
