SPECIFICATION Spec
CONSTANTS
    NumPages = 4
    PageSize = 4
    ImageSize = 8
    MaxHeaders = 3
    LoadHeaders <- MCLoadHeaders
    DynamicHeaders <- MCDynamicHeaders
    RelroHeaders <- MCRelroHeaders
INVARIANTS
    AcceptedPlanIsWellFormed
CHECK_DEADLOCK FALSE
