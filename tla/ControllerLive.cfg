SPECIFICATION FairSpec
CONSTANTS
    NULL = NULL
    GONE = GONE
    EmptyName = EmptyName
    n1 = n1
    n2 = n2
    n3 = n3
    u1 = u1
    u2 = u2
    ns1 = ns1
    ns2 = ns2
    v1 = v1
    v2 = v2
    v3 = v3
    c1 = c1
    c2 = c2
    Names = {n1}
    Uids = {u1}
    UidOf <- MCUidOf
    Namespaces = {ns1}
    Annotations <- FewAnnotations
    Capacities = {}
    DefaultCapacity = 5
    VolumeIds = {v1, v2, v3}
    Calls = {c1, c2}
    SerialCalls = FALSE
    FaultKinds = {"cancel", "list_error", "restart"}
    MaxFaults = 1
PROPERTIES
    EventuallyAnswered
