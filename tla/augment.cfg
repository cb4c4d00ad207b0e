SPECIFICATION AugmentSpec
CONSTANTS
    Pairs <- MCPairs
    Mixed <- MCMixed
    HeldSets <- MCHeldSets
    SeedCounts <- MCSeedCounts
    Answers <- MCAnswers
    MaxStarts = 2
    MaxJobs = 2
INVARIANTS AugmentTypeOK SeedsAgree AcceptedNew LineageTrue
PROPERTIES PaidOnce
CHECK_DEADLOCK FALSE
