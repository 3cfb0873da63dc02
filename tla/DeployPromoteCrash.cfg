SPECIFICATION Spec
CONSTANTS
    Releases = {r1, r2}
    None = None
    MaxDeploys = 2
    Want = 1
    Slots = 2
    Manual = FALSE
    Faults = {"crash"}
    MaxFaults = 1
    CrashAt = {"promoteRecord"}
INVARIANTS
    NoOutage
CHECK_DEADLOCK FALSE
