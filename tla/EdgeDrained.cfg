SPECIFICATION Spec
CONSTANTS
    Replica = {1, 2}
    Port = {1, 2, 3}
    Request = {q1, q2}
    Retryable = {q1}
    Tables <- RolloutTables
    MaxInstalls = 4
    MaxRestarts = 1
INVARIANTS
    DrainedStaysIdle
CHECK_DEADLOCK FALSE
