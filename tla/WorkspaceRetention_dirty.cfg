SPECIFICATION Spec
CONSTANTS
    IdleTimeout = 1
    CheckpointInterval = 4
    Retention = 1
    CallTicks = 1
    MaxCalls = 1
    MaxFailures = 0
PROPERTIES
    DirtyIsNeverAutoDeleted
