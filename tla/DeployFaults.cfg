SPECIFICATION FailureSpec
CONSTANTS
    Releases = {r1, r2}
    None = None
    MaxDeploys = 3
    Want = 1
    Slots = 3
    Manual = FALSE
    Faults = {"worker", "push", "stop", "store", "plan", "crash", "resume", "dies"}
    MaxFaults = 1
    CrashAt <- SafeCrash
INVARIANTS
    TypeOK
    MutualExclusion
    NoOutage
    PoolsNeverMix
PROPERTIES
    FinishedIsFinal
CHECK_DEADLOCK FALSE
