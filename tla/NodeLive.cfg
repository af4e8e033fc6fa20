SPECIFICATION HFairSpec
CONSTANTS
    NULL = NULL
    FULL = FULL
    v1 = v1
    v2 = v2
    v3 = v3
    t1 = t1
    t2 = t2
    t3 = t3
    f1 = f1
    f2 = f2
    Volumes = {v1, v2}
    Targets = {t1, t2}
    VolumeOf <- OwnVolumes
    MountOf <- MixedMounts
    SecretVolumes = {v1}
    Files = {f1}
    FaultKinds = {"api_error", "mount_error", "unmount_error", "cancel", "lost_reply", "restart"}
    MaxFaults = 2
CHECK_DEADLOCK FALSE
PROPERTIES
    CallsEnd
    StoppedIsUnmounted
    CachedComesUp
