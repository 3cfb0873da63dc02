SPECIFICATION PlaceSpec
CONSTANTS
    PMachines = {"hub", "m1"}
    NameOrder <- ByName
    PlacedEnvs = {"x"}
    Creators = {"c1"}
    Room <- BothRoom
    Demand = 2
    Pins <- NoPins
    MaxMoves = 2
INVARIANT OneHome
CHECK_DEADLOCK FALSE
