SPECIFICATION RelocationSpec
CONSTANTS
    NumPages = 4
    PageSize = 8
    LoadBias = 8
    Machines <- MCMachines
    Symbols <- MCSymbols
    IndexError = "None"
    RelOptions <- MCOptions
    Junk = {5}
    MaxApplies = 2
INVARIANTS
    AppliedExactly
    FailureLeavesMemory
    RollbackFailureIsReported
CHECK_DEADLOCK FALSE
