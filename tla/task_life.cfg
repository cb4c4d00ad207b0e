SPECIFICATION Spec
CONSTANTS
    c1 = c1  c2 = c2  i1 = i1
    CrawlTasks = {c1}
    IngestTasks = {i1}
    None = None
    RedisEnabled = TRUE
    Events = {"outage", "restart", "expire", "raise"}
    MaxEvents = 2
CHECK_DEADLOCK FALSE
INVARIANT Safety
PROPERTIES AnswersSurvive Liveness
