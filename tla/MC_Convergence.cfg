CONSTANTS
    p1 = p1
    p2 = p2
    s1 = s1
    s2 = s2
    Pods = {p1, p2}
    ProxyPods = {p1, p2}
    Svcs = {s1}
    ExternalIPs <- MC_ExternalIPs
    NodeIsIPv4 = TRUE
    MaxEvents = 4
    MaxFailures = 1
    Absent = Absent
    Deleted = Deleted
    NoPod = NoPod
SPECIFICATION FairSpec
CHECK_DEADLOCK FALSE
PROPERTY Convergence
