SPECIFICATION FairSpec
CONSTANTS
    MaxSteps = 2
    MaxExecs = 2
    Losable = {"run_error"}
INVARIANTS
    CompletedOnce
    TerminalEventEnds
    TruthfulCompletion
    SnapshotCoversEarly
PROPERTIES
    StreamEnds
    FollowsRecord
CHECK_DEADLOCK FALSE
