SPECIFICATION LoaderSpec
CONSTANTS
    NumPages = 4
    PageSize = 2
    Byte = {0, 1}
    Plans <- MCPlans
    Entries = {0, 5}
    Bases = {0, 1, 2, 4, 6}
    Windows <- MCWindows
    Image <- MCImage
    MaxCalls = 3
INVARIANTS
    LoadedExactly
    FailedLoadRestores
    OthersUntouched
    PlacementAccepted
CHECK_DEADLOCK FALSE
