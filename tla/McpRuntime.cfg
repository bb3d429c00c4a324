SPECIFICATION FairSpec
CONSTANTS
    s1 = s1
    s2 = s2
    q1 = q1
    t1 = t1
    p1 = p1
    l1 = l1
    l2 = l2
    Nobody = Nobody
    Servers = {s1, s2}
    Stdio = {s1, s2}
    Versions = {1, 2}
    Threads = {t1}
    Processes = {p1}
    Loads = {l1, l2}
    Ports = {q1}
    Port <- MCSharedPort
    Cooldown = 2
    InitialServers = {s1}
    FirstVersion = 1
    MaxEdits = 1
    MaxTests = 1
INVARIANTS TypeOK CooldownIsEarned RunsOwnGateways McpInv
PROPERTY SettingsAreTried
CHECK_DEADLOCK FALSE
