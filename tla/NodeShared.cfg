SPECIFICATION Spec
CONSTANTS
    NULL = NULL
    FULL = FULL
    v1 = v1
    v2 = v2
    v3 = v3
    t1 = t1
    t2 = t2
    t3 = t3
    f1 = f1
    f2 = f2
    Volumes = {v1}
    Targets = {t1, t2}
    VolumeOf <- SharedVolume
    MountOf <- FuseOnly
    SecretVolumes = {v1}
    Files = {f1}
    FaultKinds = {"api_error", "probe_error", "download_error", "mount_error", "unmount_error", "cancel", "lost_reply", "restart", "rbac"}
    MaxFaults = 3
CHECK_DEADLOCK FALSE
INVARIANTS
    TypeOK
    MountsBalanced
    NoUnreviewedData
