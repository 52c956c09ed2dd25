SPECIFICATION Spec
CONSTANTS
    Request = {r1, r2, r3}
    Overlap = 2
    PlatformKey = PlatformKey
    OldKey = OldKey
    NoKey = NoKey
    NoModel = NoModel
    MaxPlanChanges = 1
    MaxReruns = 1
    cheap = cheap
    paid = paid
    unlisted = unlisted
    Model <- MCModel
    Registry <- MCRegistry
    ConcurrentLimit <- MCConcurrentLimit
    MonthlyLimit <- MCMonthlyLimit
SYMMETRY RequestSymmetry
INVARIANTS
    PlatformRunsRegistryModels
    KeyFitsPlan
    KeyWasStored
    ActivePerPlan
CHECK_DEADLOCK FALSE
