SPECIFICATION Spec
CONSTANTS
    NumPages = 224
    PageSize = 4
    WordBits = 4
    gnu_hash <- MCgnu_hash
    sysv_hash <- MCsysv_hash
    MaxStringBytes = 2
    Worlds <- MCWorlds
INVARIANTS
    BindsFirstInScope
    IndexKeepsWalkInTable
    BoundVersionIsRequested
    AcceptedMetadataIsReadable
PROPERTIES
    LookupReturns
