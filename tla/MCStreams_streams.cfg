SPECIFICATION Spec
CONSTANTS
    Phones = {a1, a2}
    Links = {b1, b2}
    Drafts = {c1, c2}
    Nobody = Nobody
    MaxReceipts = 1
    MaxConfirmed = 1
    MaxWire = 1
    MaxPtyErrors = 1
    RingFrames = 2
    QueueFrames = 2
    MaxOutput = 4
    MaxGenerations = 2
    CodexTabs = {a1, a2}
    MaxDials = 2
    MaxPrompts = 2
SYMMETRY Symmetry
INVARIANTS
    InputIsExact
    ReplayIsComplete
    PromptIsGated
