SPECIFICATION FeedSpec
CONSTANTS
    Here = "hub"
    Members = {"m1"}
    EventBuffer = 2
    MaxRecorded = 2
    MaxFleetChanges = 1
    MaxLosses = 0
INVARIANT MergedComplete
CHECK_DEADLOCK FALSE
