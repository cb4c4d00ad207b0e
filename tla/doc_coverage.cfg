SPECIFICATION Spec
CONSTANTS
    Inputs <- MCThree
    Key <- MCKey
    Words <- MCWords
    Near <- MCNone
    Unfit <- MCUnfit
    Removals <- MCRemovals
    Html <- MCHtml
    Ratio <- MCWide
    MaxRuns = 2
INVARIANT CoverageKept
CHECK_DEADLOCK FALSE
