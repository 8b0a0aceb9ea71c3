SPECIFICATION Spec
CONSTANTS
    NumPages = 4
    MaxCalls = 2
    Images <- MCImages
    Answers <- MCAnswers
    Options <- MCOptions
INVARIANTS
    LinkMapStaysValid
    PagesHaveOneOwner
    FailureRestores
    GraphIsComplete
    LimitsHold
PROPERTIES
    CallsAreAtomic
    EveryCallReturns
CHECK_DEADLOCK FALSE
