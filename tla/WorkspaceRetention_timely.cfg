SPECIFICATION FairSpec
CONSTANTS
    IdleTimeout = 1
    CheckpointInterval = 4
    Retention = 1
    CallTicks = 1
    MaxCalls = 2
    MaxFailures = 1
INVARIANTS
    RecoverableWhenStopped
PROPERTIES
    IdleClaimIsExpired
    QuietIsReleased
