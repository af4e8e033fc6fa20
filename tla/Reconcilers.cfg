SPECIFICATION MCSpec
CONSTANTS
    NULL = NULL
    Nodes = {n1, n2}
    Labelled = {n1}
    Pods = {p1}
    Paths = {a}
    First = n1
    Second = n2
    Path = a
    Specs <- Written
    MaxUid = 3
    MaxFaults = 2
    FaultKinds = {"api_error", "restart", "delete", "edit", "source", "terminate"}
CHECK_DEADLOCK FALSE
INVARIANTS
    TypeOK
    AvailableWasChecked
    SameIncarnation
PROPERTIES
    SeenEditsStay
    ReachableIsAvailable
    PodSettles
    DeletedObjectsGo
