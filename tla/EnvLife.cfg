SPECIFICATION FairSpec
CONSTANTS
    Env = {1, 2}
    None = None
    Keeper = Keeper
    Host = {h}
    Blocks = 2
    Addrs = 2
    Bound = {}
    Legacy <- HalfBlock
    Services = TRUE
    MaxTries = 2
    Faults = {"store", "record", "runtime", "git", "vpn", "push", "crash"}
    MaxFaults = 2
    MaxCommands = 2
INVARIANTS
    TypeOK
    BlocksDisjoint
    NothingLeft
    NoOrphans
    ReadyComplete
PROPERTIES
    CommandsEnd
CHECK_DEADLOCK FALSE
