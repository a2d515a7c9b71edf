SPECIFICATION FairSpec
CONSTANTS
    Workspaces = {w1, w2}
    Callers = {c1}
    None = None
    MaxRuns = 2
    MaxPasses = 2
    MaxFaults = 1
INVARIANTS
    HostUpdateFindsNothingRunning
PROPERTIES
    DrainIsNotCancelled
    ScheduledDrainCheckpointsFirst
    DrainCompletes
