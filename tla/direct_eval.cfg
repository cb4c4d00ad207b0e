SPECIFICATION Spec
CONSTANTS
    r1 = r1
    r2 = r2
    Rows <- MCRows
    MaxAttempts = 2
    Cap = 3
    MaxStarts = 4
INVARIANTS TypeOK OneResponse ScoredOnce AttemptsCapped SummaryAccounts SwapIsFair
CHECK_DEADLOCK FALSE
