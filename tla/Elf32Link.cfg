SPECIFICATION Spec
CONSTANTS
    NumPages = 3
    PageSize = 4
    LoadBias = 0
    Machines <- MCPossibleMachines
    Symbols <- MCSymbols
    IndexError = "None"
    RelOptions <- MCOptions
    Junk = {}
    MaxApplies = 2
    RelroDescriptors <- MCDescriptors
    MaxPages = {0, 2, 3}
    MaxSeals = 2
INVARIANTS
    SealedExactly
    FailedSealRestores
    PartialSealIsReported
    SealingNeverGrants
    SealWithinCeiling
    SealedWordsAreFrozen
PROPERTY
    EveryCallReturns
CHECK_DEADLOCK FALSE
