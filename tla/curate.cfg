SPECIFICATION Spec
CONSTANTS
    Inputs <- MCInputs
    Key <- MCKey
    Words <- MCWords
    Near <- MCNear
    Unfit <- MCUnfit
    Removals <- MCRemovals
    Html <- MCHtml
    Ratio <- MCRatio
    MaxRuns = 3
INVARIANTS TypeOK SplitsDisjoint HoldoutPartitions SingletonsKept GoldenUnseen
CHECK_DEADLOCK FALSE
