SPECIFICATION FairSpec
CONSTANTS
    NULL = NULL
    Procs = {p1, p2}
    Clients = {c1}
    MaxFaults = 3
    FaultKinds = {"kill", "term", "int", "force", "panic", "crd"}
CHECK_DEADLOCK FALSE
INVARIANTS
    TypeOK
    ServingIsReached
    OnlySnapshotsRefused
PROPERTIES
    ClientsGetThrough
    ServesInTheEnd
