SPECIFICATION SearchSpec
CONSTANTS
    NumPages = 5
    PageSize = 2
    Lengths = {0, 1, 2, 4, 12}
    Begins = {0, 2, 3, 4, 9}
    Ends = {3, 7, 10, 11}
    Alignments = {0, 1, 2, 4, 6, 12}
    Offsets = {0, 1, 2, 6}
INVARIANTS
    FirstFit
PROPERTY
    Termination
CHECK_DEADLOCK FALSE
