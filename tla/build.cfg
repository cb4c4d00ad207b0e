SPECIFICATION Spec
CONSTANTS
    StageArgs <- MCStageArgs
    MayBeEmpty = {"1a", "2"}
    MaxIndex = 2
    MaxImports = 1
    MaxRuns = 3
INVARIANTS TypeOK MarkedCurrent EndsWhole ImportKept
CHECK_DEADLOCK FALSE
