SPECIFICATION Spec
CONSTANTS
    NumPages = 2
    PageSize = 2
    Byte = {0, 1}
INVARIANT
    UnmappedStaysInaccessible
