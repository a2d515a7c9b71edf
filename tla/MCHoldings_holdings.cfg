SPECIFICATION Spec
CONSTANTS
    Files = {a1, a2}
    Contents = {v0, v1}
    Absent = Absent
    HeadContent = v0
    MaxCheckpoints = 1
    MaxIds = 2
    MaxEdits = 1
    Natives = {b1, b2}
    Shell = Shell
    MaxCommits = 2
    MaxWrites = 1
    Servers = {b1, b2}
    Rows = {a1, a2}
    MasterKeys = {k1, k2}
    NoKey = NoKey
    Secrets = {a1, a2}
    NumSpaces = 2
    Mutations = {b1, b2}
    MaxValues = 2
    MaxMutations = 2
    CodexRuns = {b1, b2}
    MaxCredentials = 3
    Uses = {b1, b2}
SYMMETRY Symmetry
INVARIANTS
    RecoveryIsSound
    OnlyScannedIsPublished
    OneKeyForEveryRow
    LaunchIsCurrent
    GatesAreOrdered
    CredentialFollowsOwner
    DisconnectEndsTokenUse
PROPERTIES
    NativeKeepsTerminalWork
