SPECIFICATION Spec
CONSTANTS
    PC = {0, 1}
    Value = {0, 1}
    Immediates = {1, 2}
    NoStop = NoStop
    NoSvc = NoSvc
    Budgets = {0, 1, 3}
    Ceilings = {0, 2}
    Registries <- MCRegistries
    MaxRuns = 1
INVARIANTS
    ResultIsFaithful
PROPERTIES
    RunsAsOneMachine
    EveryRunReturns
CHECK_DEADLOCK FALSE
