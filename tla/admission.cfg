SPECIFICATION Spec
CONSTANTS
    w1 = w1
    w2 = w2
    Work <- MCWork
    MaxRuns = 3
INVARIANTS TypeOK FilesAgree EveryRowTried
PROPERTIES OneVerdict
CHECK_DEADLOCK FALSE
