CONSTANTS
    p1 = p1
    p2 = p2
    s1 = s1
    Pods = {p1, p2}
    ProxyPods = {p1}
    Svcs = {s1}
    ExternalIPs <- MC_ExternalIPs
    NodeIsIPv4 = TRUE
    MaxEvents = 4
    MaxFailures = 0
    MaxCrashes = 0
    Absent = Absent
    Deleted = Deleted
    Tombstone = Tombstone
    NoPod = NoPod
SPECIFICATION RSpec
CHECK_DEADLOCK FALSE
PROPERTY WithdrawsWantedOnlyOnRerun
