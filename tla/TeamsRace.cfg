SPECIFICATION Spec
CONSTANTS
    Request = {r1, r2, r3, r4}
    Team = {t1, t2, t3}
    Kind = {"createTeam", "useTemplate", "updateTeam", "replaceAgents", "saveGraph", "deleteTeam", "createRun"}
    Overlap = 2
    TeamLimit = 1
    ConcurrentLimit = 1
    MonthlyLimit = 2
    MaxReruns = 1
    NoTeam = NoTeam
    NoRequest = NoRequest
SYMMETRY RequestSymmetry
INVARIANTS
    RunsBounded
    TeamsBounded
    RowUpdatesDoNotMerge
PROPERTIES
    OnlyUnseenRunsDestroyed
CHECK_DEADLOCK FALSE
