SPECIFICATION Spec
CONSTANTS
    s1 = s1
    s2 = s2
    t1 = t1
    t2 = t2
    r1 = r1
    r2 = r2
    w1 = w1
    w2 = w2
    Skills = {s1}
    Threads = {t1}
    Versions = {1, 2}
    FirstVersion = 1
    Requests = {r1}
    MaxRequests = 2
    InitialSkills = {s1}
    InitialThreads = {t1}
    Workers = {w1}
    MaxCrashes = 0
    Overlap = FALSE
    Reachable = {t1}
INVARIANT NoSkillsIsReady
CHECK_DEADLOCK FALSE
