SPECIFICATION FairSpec
CONSTANTS
    MaxAgents = 1
    Attempts = 2
    MaxStalls = 1
    Budget = 2
    Reports = {0, 2}
    MaxReport = 2
    RunTimeout = 0
    StepTimeout = 1
    Faults = {"enqueue", "db", "crash", "edit"}
INVARIANTS
    JobCompletedMeansTerminal
PROPERTIES
    RunSettles
CHECK_DEADLOCK FALSE
