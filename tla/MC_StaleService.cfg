CONSTANTS
    p1 = p1
    p2 = p2
    s1 = s1
    s2 = s2
    Pods = {p1}
    ProxyPods = {p1}
    Svcs = {s1}
    ExternalIPs <- MC_TwoExternalIPs
    NodeIsIPv4 = TRUE
    MaxEvents = 2
    MaxFailures = 0
    Absent = Absent
    Deleted = Deleted
    NoPod = NoPod
SPECIFICATION Spec
CHECK_DEADLOCK FALSE
INVARIANT ServiceCacheCurrent
