SPECIFICATION Spec
CONSTANTS
    NumPages = 4
    MaxCalls = 2
    Images <- MCImages
    Answers <- MCAnswers
    Options <- MCOptions
INVARIANT
    UnreportedFailureLeavesNothing
CHECK_DEADLOCK FALSE
