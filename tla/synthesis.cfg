SPECIFICATION Spec
CONSTANTS
    p1 = p1
    p2 = p2
    Passages <- MCPassages
    MaxPairs = 2
    MaxRuns = 3
INVARIANTS TypeOK StatusFileTrue ReturnedIsFile
PROPERTIES RowsOfOneRun
CHECK_DEADLOCK FALSE
