SPECIFICATION Spec
CONSTANTS
    Workspaces = {w1}
    Callers = {c1}
    None = None
    MaxRuns = 1
    MaxPasses = 2
    MaxFaults = 1
PROPERTIES
    OnlyVerificationReopens
