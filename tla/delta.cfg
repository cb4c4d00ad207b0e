SPECIFICATION Spec
CONSTANTS
    p1 = p1  p2 = p2  t1 = t1  v1 = v1  v2 = v2  blank = blank
    b1 = b1  b2 = b2
    home = home  other = other
    Pages = {p1}
    TextFiles = {t1}
    Validated = {t1}
    Contents = {v1, v2, blank}
    Blank = blank
    NoHash = NoHash
    Collections = {home, other}
    HomeOf <- OneCollection
    TargetOf <- TextElsewhere
    Slots = {b1, b2}
    MaxBatches = 2
    BatchSize = 1
    RoundWidth = 2
    ForceModes = {TRUE, FALSE}
    Faults = {"fetch", "write", "delete", "abort", "drain", "stop", "error", "save", "crash"}
    MaxFaults = 1
    MaxTextLost = 1
    MaxGenerations = 2
INVARIANT Safety
SYMMETRY Symmetric
CONSTRAINTS IndexBound OrphanBound
