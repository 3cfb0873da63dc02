SPECIFICATION Spec
CONSTANTS
    PMachines = {"hub", "m1", "m2"}
    NameOrder <- ByName
    PlacedEnvs = {"x", "y"}
    Creators = {"c1", "c2"}
    Room <- Memory
    Demand = 2
    Pins <- Pinned
    MaxMoves = 3
    Envs = {1, 2}
    Trees = {11, 12}
    BuiltServices = {"web"}
    Member = FALSE
    SameArch = TRUE
    KeepReleases = 1
    MaxDeploys = 3
    MaxBuildFaults = 1
    OnMember = FALSE
    OperatorValues = {1, 2}
    MaxChanges = 2
    MaxRuns = 3
    MaxCuts = 1
    EnvOnMember = FALSE
    Pushes = {"p1", "p2"}
    Branches = {"main", "dev"}
    EnvBranch = "dev"
    MaxEdits = 1
    MaxGitFaults = 1
INVARIANTS
    ReleasesDelivered
    FilesPlanned
    
    
    
CHECK_DEADLOCK FALSE
