SPECIFICATION LifecycleSpec
CONSTANTS
    PC = {4, 8, 12}
    Value = {0}
    Immediates = {1}
    NoStop = NoStop
    NoSvc = NoSvc
    Graphs <- MCGraphs
    PlanOptions <- MCPlanOptions
    ExecOptions <- MCExecOptions
    AllOnes = 31
INVARIANTS
    PlanIsComplete
    DependenciesComeFirst
    ExecutedPrefix
PROPERTY
    EveryCallEnds
CHECK_DEADLOCK FALSE
