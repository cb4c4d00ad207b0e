SPECIFICATION ScheduleSpec
CONSTANTS
    s1 = s1  s2 = s2  s3 = s3
    Ids = {s1, s2, s3}
    Crons = {daily, weekly, bad}
    Bad = bad
    Sites = {docs}
    NoCollection = NoCollection
    Collections = {}
    ScheduleEvents = {"crash", "restart"}
    MaxScheduleEvents = 2
    MaxLaunches = 1
CHECK_DEADLOCK FALSE
INVARIANT ScheduleSafety
SYMMETRY IdSymmetry
