SPECIFICATION Spec
CONSTANTS
    p1 = p1  p2 = p2  p3 = p3
    Pages = {p1, p2, p3}
    Start = p1
    Seeds <- OneSeed
    Allowed = {p1, p2, p3}
    Sites <- AllSites
    Validating = {p3}
    FetchConcurrency = 2
    ForceModes = {TRUE, FALSE}
    Limits <- AnyLimits
    Events = {"flaky", "cancel", "crash"}
    MaxEvents = 1
    MaxCrawls = 2
CHECK_DEADLOCK FALSE
INVARIANT Safety
PROPERTIES ExploresOnce CrawlEnds
