SPECIFICATION LiveSpec
CONSTANTS
    Replica = {1, 2}
    Port = {1, 2, 3}
    Request = {q1, q2}
    Retryable = {q1}
    Tables <- AllTables
    MaxInstalls = 3
    MaxRestarts = 1
INVARIANTS
    InflightExact
    DrainedOnce
PROPERTIES
    DrainedIdle
    
CHECK_DEADLOCK FALSE
