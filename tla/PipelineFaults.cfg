SPECIFICATION Spec
CONSTANTS
    MaxAgents = 2
    Attempts = 1
    MaxStalls = 1
    Budget = 2
    Reports = {1, 3}
    MaxReport = 3
    RunTimeout = 0
    StepTimeout = 1
    Faults = {"enqueue", "db", "crash", "stall"}
INVARIANTS
    TypeOK
    CompletedMeansAllSteps
    SpendMatchesSteps
    SpendBound
    WaitBound
    ExecutionsBounded
PROPERTIES
    ImplementsRecord
CHECK_DEADLOCK FALSE
