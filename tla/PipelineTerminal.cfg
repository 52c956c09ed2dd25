SPECIFICATION Spec
CONSTANTS
    MaxAgents = 1
    Attempts = 1
    MaxStalls = 0
    Budget = 2
    Reports = {1}
    MaxReport = 1
    RunTimeout = 0
    StepTimeout = 1
    Faults = {"db"}
PROPERTIES
    TerminalIsFinal
CHECK_DEADLOCK FALSE
