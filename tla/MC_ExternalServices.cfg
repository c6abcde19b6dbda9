CONSTANTS
    p1 = p1
    p2 = p2
    s1 = s1
    s2 = s2
    Pods = {p1, p2}
    ProxyPods = {p1}
    Svcs = {s1, s2}
    ExternalIPs <- MC_ExternalIPs
    NodeIsIPv4 = TRUE
    MaxEvents = 4
    MaxFailures = 1
    Absent = Absent
    Deleted = Deleted
    NoPod = NoPod
SPECIFICATION Spec
INVARIANT TypeOK
INVARIANT RoutesMatchCachesWhenSettled
INVARIANT CachesTrackCluster
CHECK_DEADLOCK FALSE
SYMMETRY MC_Symmetry
PROPERTY RefinesRouteSync
