CONSTANTS
    p1 = p1
    p2 = p2
    s1 = s1
    s2 = s2
    Pods = {p1, p2}
    ProxyPods = {p1, p2}
    Svcs = {s1, s2}
    ExternalIPs <- MC_ExternalIPs
    NodeIsIPv4 = FALSE
    MaxEvents = 2
    MaxFailures = 1
    Absent = Absent
    Deleted = Deleted
    NoPod = NoPod
SPECIFICATION Spec
CHECK_DEADLOCK FALSE
INVARIANT CachesTrackCluster
