SPECIFICATION FairSpec
CONSTANTS
    p1 = p1
    t1 = t1
    t2 = t2
    s1 = s1
    s2 = s2
    s3 = s3
    NoTask = NoTask
    Processes = {p1}
    Threads = {t1}
    Streams = {s1, s2}
    MaxEvents = 2
    MaxCancels = 2
INVARIANTS TypeOK LiveIsReachable OneAnswer StreamInv
PROPERTIES StoppedStaysSilent StopDrains
CHECK_DEADLOCK FALSE
