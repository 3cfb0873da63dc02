SPECIFICATION Spec
CONSTANTS
    m1 = m1
    m2 = m2
    e1 = e1
    t1 = t1
    n1 = n1
    n2 = n2
    k1 = k1
    k2 = k2
    PeerNames = {n1, n2}
    PublicKeys = {k1, k2}
    MaxAddr = 2
    PeerCommands = {"c1", "c2"}
    MaxPeerCommands = 3
    MaxPeerFaults = 1
    Own = "own"
    EnvAddrs = {"a"}
    Targets = {"t1", "t2"}
    Clients = {"c1", "c2"}
    Restricted = {"c1"}
    MaxSockets = 3
    MaxRelayOps = 4
    MaxRelayFaults = 1
    CommanderProcs = {1, 2}
    MaxHubEvents = 1
    MaxRan = 2
    KeyCommands = {"k1", "k2"}
    KeyNames = {"n1", "n2"}
    Prints = {"f1", "f2"}
    SeededKey <- FirstKey
    MaxKeyCommands = 3
    MaxKeyFaults = 1
    ApiListen = "both"
    Sessions = {"s1", "s2"}
    Reports = 2
    BadReports = {}
    ReportRows = 2
    MaxStarts = 2
    MaxSessions = 3
    MaxDaemonFaults = 2
    Prunes = {1, 2}
    MaxGen = 2
    MaxCertEvents = 3
    TopPort = 2
    Wanted <- TunnelAndWeb
    MaxRules = 2
    Members = {m1, m2}
    Joined = {}
    Envs = {e1}
    Tokens = {t1}
    MaxSubnet = 2
    MaxCommands = 2
    MaxEvents = 1
INVARIANTS
    
    RelaysAgree
    
    
    
    
    CertsKept
PROPERTIES
    FleetAgrees
    
    TasksTrue
CHECK_DEADLOCK FALSE
