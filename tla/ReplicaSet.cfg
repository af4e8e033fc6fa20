SPECIFICATION MCSpec
CONSTANTS
    NULL = NULL
    SOURCE = SOURCE
    Sets = {s1}
    Nodes = {n1, n2, n3}
    MaxReplicas = 2
    Workers = {w1, w2}
    First = w1
    Late = n3
    Home = n1
    Others = {SOURCE}
    FaultKinds = {"api_error", "restart", "panic"}
    ChangeKinds = {"rollout", "label", "scale", "move", "delete_node", "events"}
    MaxFaults = 1
CHECK_DEADLOCK FALSE
INVARIANTS
    TypeOK
    ReplicasAsAsked
    OneWriterPerReplica
    SyncPodsSpread
    SyncPodHasItsClaims
    LeakHasACause
PROPERTIES
    ServedOrAbandoned
    DeletedIsCollected
    ImplementsNames
