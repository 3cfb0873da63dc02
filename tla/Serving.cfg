SPECIFICATION ServingSpec
CONSTANTS
    r1 = r1
    r2 = r2
    q1 = q1
    q2 = q2
    Releases = {r1, r2}
    None = None
    MaxDeploys = 3
    Want = 2
    Slots = 4
    Manual = TRUE
    Faults = {"crash"}
    MaxFaults = 2
    CrashAt <- SafeCrash
    UpWant = 2
    UpSlots = 4
    Versions = {1, 2}
    UpFaultKinds = {"store", "runtime", "push", "crash"}
    MaxUpFaults = 1
    MaxUpCommands = 2
    MaxUpEvents = 1
    Failures = 1
    Replica = {1, 2}
    Port = {1, 2, 3}
    Request = {q1, q2}
    Tables <- FlipTables
    MaxMarks = 2
    MaxInstalls = 3
    MaxRestarts = 1
    HistoryLimit = 1
    SubscriberBuffer = 1
    MaxTable = 2
    MaxEvents = 1
    Here = "hub"
    Members = {"m1"}
    EventBuffer = 2
    MaxRecorded = 2
    MaxFleetChanges = 1
    MaxLosses = 1
INVARIANTS
    HeldPoolReady
    QuietDeploys
    CountsExact
    DrainsTold
    
PROPERTIES
    RefinesSwitch
    UpDelivers
    NamesServed
CHECK_DEADLOCK FALSE
