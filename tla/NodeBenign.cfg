SPECIFICATION Spec
CONSTANTS
    NULL = NULL
    FULL = FULL
    v1 = v1
    v2 = v2
    v3 = v3
    t1 = t1
    t2 = t2
    t3 = t3
    f1 = f1
    f2 = f2
    Volumes = {v1, v2, v3}
    Targets = {t1, t2, t3}
    VolumeOf <- OwnVolumes
    MountOf <- MixedMounts
    SecretVolumes = {v1}
    Files = {f1, f2}
    FaultKinds = {"api_error", "probe_error", "download_error", "mount_error"}
    MaxFaults = 2
CHECK_DEADLOCK FALSE
INVARIANTS
    MountsTracked
    GoneMeansUnmounted
PROPERTIES
    ImplementsLifecycle
