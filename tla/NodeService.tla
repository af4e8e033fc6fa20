---------------------------- MODULE NodeService ----------------------------
(***************************************************************************)
(* The CSI node service of one node: src/src/services/node.rs, and the     *)
(* Mount of src/src/util/mount_helper.rs.                                  *)
(*                                                                         *)
(* A handler is a sequence of stretches separated by awaits; pc names the  *)
(* await a handler is at.  Handlers share the map of tracked mounts, keyed *)
(* by volume id, behind a tokio Mutex that node_unpublish_volume holds     *)
(* across the unmount; the cache directory /mnt/<volume id>, which all     *)
(* targets of a volume share; and the kernel's mount table.                *)
(*                                                                         *)
(* A target is the path of one volume in one pod.  The kubelet (external)  *)
(* has one call per target in flight and retries it until it succeeds; a   *)
(* target is never used again once it is gone.                             *)
(*                                                                         *)
(* Bind mounts and unmounts run on the blocking pool: they complete even   *)
(* if their handler is dropped.  A fuse mount lives in this process: it is *)
(* dead after a restart, and it is unmounted in the background when its    *)
(* handle is dropped (fuse3, external).                                    *)
(***************************************************************************)
EXTENDS Integers

CONSTANTS
    Volumes,
    Targets,
    VolumeOf,      \* VolumeOf[t]: the volume published at t
    MountOf,       \* MountOf[v]: the mount annotation in v's volume context
    SecretVolumes, \* volumes whose DataNode refers to a Secret
    Files,         \* the files the data source lists
    FaultKinds,    \* the faults that may happen, see AllFaults
    MaxFaults,     \* bound on the number of faults
    NULL,
    FULL           \* a cached file that is complete

AllFaults == {"api_error", "probe_error", "download_error", "mount_error",
              "unmount_error", "cancel", "lost_reply", "restart", "rbac"}

ASSUME ConstantsAssumption ==
    /\ VolumeOf \in [Targets -> Volumes]
    /\ MountOf \in [Volumes -> STRING]
    /\ SecretVolumes \subseteq Volumes
    /\ {NULL, FULL} \cap Targets = {}
    /\ NULL # FULL /\ NULL \notin Files
    /\ NULL \notin [holder : Targets, target : Targets]
    /\ FaultKinds \subseteq AllFaults
    /\ MaxFaults \in Nat

VARIABLES
    pc,       \* pc[t]: the await of the handler serving t
    op,       \* op[t]: "publish" or "unpublish"
    reply,    \* reply[t]: "none", "ok" or "error"
    todo,     \* todo[t]: the listed files that are not downloaded yet
    writing,  \* writing[t]: the file being downloaded, or NULL
    mounts,   \* mounts[v]: the target of the tracked Mount of v, or NULL
    lock,     \* the unpublish that holds the lock on mounts: [holder, target]
    depth,    \* depth[t]: how many mounts are stacked on t
    dead,     \* dead[t]: the mount on t has lost its fuse session
    dir,      \* dir[t]: the directory at t exists
    cache,    \* cache[v][f]: NULL, FULL, or who truncated the file last
    orphans,  \* orphans[t]: mounts and unmounts of t without a handler
    kubelet,  \* kubelet[t]: where the kubelet is with the pod's volume
    perms,    \* perms[t]: what the pod's service account may get
    granted,  \* history: granted[t]: what it could get during the call
    faults

locals == <<pc, op, reply, todo, writing, granted>>
kernel == <<depth, dead, dir, orphans>>
vars == <<locals, mounts, lock, kernel, cache, kubelet, perms, faults>>

-----------------------------------------------------------------------------
(* Data *)

\* How the mount annotation says to mount.
ParseMount(annotation) ==
    CASE annotation \in {"cache", "cache-read-only", "cache-read-write"} -> "cached"
      [] annotation \in {"fuse", "fuse-read-only", "fuse-read-write"} -> "fuse"
      [] OTHER -> NULL

Supported(v) == ParseMount(MountOf[v]) # NULL
Cached(v) == ParseMount(MountOf[v]) = "cached"
Fuse(v) == ParseMount(MountOf[v]) = "fuse"

\* What check_access reviews: the DataNode, and the Secret if it has one.
Needed(v) == {"datanode"} \cup (IF v \in SecretVolumes THEN {"secret"} ELSE {})
Permissions == {"datanode", "secret"}

\* The awaits a handler may be at.
Awaits == {"fetch", "review_node", "review_secret", "operator", "probe", "list",
           "download", "bind", "fuse", "track", "wait", "unmount"}

NoOrphans == [mount |-> 0, unmount |-> 0]

-----------------------------------------------------------------------------
Init ==
    /\ pc = [t \in Targets |-> "idle"]
    /\ op = [t \in Targets |-> "publish"]
    /\ reply = [t \in Targets |-> "none"]
    /\ todo = [t \in Targets |-> {}]
    /\ writing = [t \in Targets |-> NULL]
    /\ mounts = [v \in Volumes |-> NULL]
    /\ lock = NULL
    /\ depth = [t \in Targets |-> 0]
    /\ dead = [t \in Targets |-> FALSE]
    /\ dir = [t \in Targets |-> FALSE]
    /\ cache = [v \in Volumes |-> [f \in Files |-> NULL]]
    /\ orphans = [t \in Targets |-> NoOrphans]
    /\ kubelet = [t \in Targets |-> "new"]
    /\ perms = [t \in Targets |-> Permissions]
    /\ granted = [t \in Targets |-> {}]
    /\ faults = 0

Fault(kind) ==
    /\ kind \in FaultKinds
    /\ faults < MaxFaults
    /\ faults' = faults + 1

Goto(t, at) == pc' = [pc EXCEPT ![t] = at]

Respond(t, response) ==
    /\ Goto(t, "done")
    /\ reply' = [reply EXCEPT ![t] = response]

\* The handler of t is gone, and its locals with it.
Forget(t) ==
    /\ Goto(t, "idle")
    /\ reply' = [reply EXCEPT ![t] = "none"]
    /\ todo' = [todo EXCEPT ![t] = {}]
    /\ writing' = [writing EXCEPT ![t] = NULL]
    /\ granted' = [granted EXCEPT ![t] = {}]
    /\ UNCHANGED op

\* A step that moves the handler of t on and changes nothing else.
Pass(t, from, to) ==
    /\ pc[t] = from
    /\ Goto(t, to)
    /\ UNCHANGED <<op, reply, todo, writing, granted, mounts, lock, kernel, cache,
                   kubelet, perms, faults>>

\* A step that fails the handler of t and changes nothing else.
Fail(t, from) ==
    /\ pc[t] = from
    /\ Respond(t, "error")
    /\ UNCHANGED <<op, todo, writing, granted, mounts, lock, kernel, cache,
                   kubelet, perms>>

-----------------------------------------------------------------------------
(* node_publish_volume *)

\* The handler starts; an unsupported mount annotation ends it at once.
Publish(t) ==
    /\ pc[t] = "idle"
    /\ kubelet[t] \in {"new", "starting"}
    /\ kubelet' = [kubelet EXCEPT ![t] = "starting"]
    /\ op' = [op EXCEPT ![t] = "publish"]
    /\ granted' = [granted EXCEPT ![t] = perms[t]]
    /\ \/ Supported(VolumeOf[t]) /\ Goto(t, "fetch") /\ UNCHANGED reply
       \/ ~Supported(VolumeOf[t]) /\ Respond(t, "error")
    /\ UNCHANGED <<todo, writing, mounts, lock, kernel, cache, perms, faults>>

\* get_full_data_mount: the DataNode, the DataPod and the Secret are read.
GetFullDataMount(t) == Pass(t, "fetch", "review_node")

\* Mutation of ReviewNode: only the DataNode is reviewed.
ReviewNodeOnly(t) ==
    /\ "datanode" \in perms[t]
    /\ Pass(t, "review_node", "operator")

\* check_access: SubjectAccessReviews for the DataNode, then for its Secret.
ReviewNode(t) ==
    /\ "datanode" \in perms[t]
    /\ Pass(t, "review_node",
            IF VolumeOf[t] \in SecretVolumes THEN "review_secret" ELSE "operator")

ReviewSecret(t) ==
    /\ "secret" \in perms[t]
    /\ Pass(t, "review_secret", "operator")

Deny(t) ==
    /\ \/ "datanode" \notin perms[t] /\ Fail(t, "review_node")
       \/ "secret" \notin perms[t] /\ Fail(t, "review_secret")
    /\ UNCHANGED faults

\* into_parts: get_operator reads the Secret again and builds the operator.
GetOperator(t) == Pass(t, "operator", "probe")

\* An API call of the handler fails, or an object it needs does not exist.
ApiFails(t) ==
    /\ \E at \in {"fetch", "review_node", "review_secret", "operator"} : Fail(t, at)
    /\ Fault("api_error")

\* Mutation of Prepare: the directory is created without asking if it exists.
PrepareNew(t) ==
    /\ pc[t] = "probe"
    /\ ~dead[t]
    /\ dir' = [dir EXCEPT ![t] = TRUE]
    /\ \/ dir[t] /\ Respond(t, "error")
       \/ ~dir[t] /\ Goto(t, IF Cached(VolumeOf[t]) THEN "list" ELSE "fuse") /\ UNCHANGED reply
    /\ UNCHANGED <<op, todo, writing, granted, mounts, lock, depth, dead, orphans,
                   cache, kubelet, perms, faults>>

\* Mount::mount: the operator was probed, the target directory is created.
\* A path whose fuse session died exists no more, yet cannot be created.
Prepare(t) ==
    /\ pc[t] = "probe"
    /\ ~dead[t]
    /\ dir' = [dir EXCEPT ![t] = TRUE]
    /\ Goto(t, IF Cached(VolumeOf[t]) THEN "list" ELSE "fuse")
    /\ UNCHANGED <<op, reply, todo, writing, granted, mounts, lock, depth, dead, orphans,
                   cache, kubelet, perms, faults>>

PrepareDead(t) ==
    /\ dead[t]
    /\ Fail(t, "probe")
    /\ UNCHANGED faults

\* The data source does not answer the probe or the listing.
SourceFails(t) ==
    /\ \E at \in {"probe", "list"} : Fail(t, at)
    /\ Fault("probe_error")

\* mount_cached: the files to download are listed.
ListSource(t) ==
    /\ pc[t] = "list"
    /\ todo' = [todo EXCEPT ![t] = Files]
    /\ Goto(t, "download")
    /\ UNCHANGED <<op, reply, writing, granted, mounts, lock, kernel, cache, kubelet,
                   perms, faults>>

\* File::create truncates the file in the cache of the volume.
CreateFile(t) ==
    /\ pc[t] = "download"
    /\ writing[t] = NULL
    /\ \E f \in todo[t] :
        /\ writing' = [writing EXCEPT ![t] = f]
        /\ cache' = [cache EXCEPT ![VolumeOf[t]][f] = t]
    /\ UNCHANGED <<pc, op, reply, todo, granted, mounts, lock, kernel, kubelet, perms, faults>>

\* The stream is written to its end.  The file is complete unless another
\* handler truncated it meanwhile: then it is when that one ends.
FinishFile(t) ==
    /\ pc[t] = "download"
    /\ writing[t] # NULL
    /\ cache' = [cache EXCEPT ![VolumeOf[t]][writing[t]] = IF @ = t THEN FULL ELSE @]
    /\ todo' = [todo EXCEPT ![t] = @ \ {writing[t]}]
    /\ writing' = [writing EXCEPT ![t] = NULL]
    /\ UNCHANGED <<pc, op, reply, granted, mounts, lock, kernel, kubelet, perms, faults>>

\* Mutation of DownloadFails: an error ends the stream as if at its end.
DownloadStops(t) ==
    /\ pc[t] = "download"
    /\ writing[t] # NULL
    /\ todo' = [todo EXCEPT ![t] = @ \ {writing[t]}]
    /\ writing' = [writing EXCEPT ![t] = NULL]
    /\ Fault("download_error")
    /\ UNCHANGED <<pc, op, reply, granted, mounts, lock, kernel, cache, kubelet, perms>>

\* A file cannot be created, its stream fails, or the next entry is a directory
\* that cannot be created or of unknown kind: what was downloaded stays.
DownloadFails(t) ==
    /\ Fail(t, "download")
    /\ Fault("download_error")

\* Every file is there: the bind mount goes to the blocking pool.
EndDownload(t) ==
    /\ todo[t] = {}
    /\ writing[t] = NULL
    /\ Pass(t, "download", "bind")

\* Mutation of MountTarget: nothing is mounted on what is mounted already.
MountOnce(t) ==
    /\ pc[t] \in {"bind", "fuse"}
    /\ depth' = [depth EXCEPT ![t] = IF @ > 0 THEN @ ELSE 1]
    /\ Goto(t, "track")
    /\ UNCHANGED <<op, reply, todo, writing, granted, mounts, lock, dead, dir, orphans,
                   cache, kubelet, perms, faults>>

\* The bind mount, or the fuse mount, appears on top of what t has.
MountTarget(t) ==
    /\ pc[t] \in {"bind", "fuse"}
    /\ depth' = [depth EXCEPT ![t] = @ + 1]
    /\ Goto(t, "track")
    /\ UNCHANGED <<op, reply, todo, writing, granted, mounts, lock, dead, dir, orphans,
                   cache, kubelet, perms, faults>>

\* Mutation of MountFails: the error is dropped, the call succeeds.
MountFailsSilently(t) ==
    /\ pc[t] \in {"bind", "fuse"}
    /\ Respond(t, "ok")
    /\ Fault("mount_error")
    /\ UNCHANGED <<op, todo, writing, granted, mounts, lock, kernel, cache, kubelet, perms>>

MountFails(t) ==
    /\ \E at \in {"bind", "fuse"} : Fail(t, at)
    /\ Fault("mount_error")

\* A Mount is dropped: a fuse handle unmounts its target in the background.
DropMount(v, t) ==
    orphans' = IF Fuse(v) /\ t # NULL
               THEN [orphans EXCEPT ![t].unmount = @ + 1] ELSE orphans

\* Mutation of TrackMount: try_lock, and no tracking if the lock is held.
TrackMountTry(t) ==
    /\ pc[t] = "track"
    /\ \/ /\ lock = NULL
          /\ mounts' = [mounts EXCEPT ![VolumeOf[t]] = t]
          /\ DropMount(VolumeOf[t], mounts[VolumeOf[t]])
       \/ /\ lock # NULL
          /\ UNCHANGED <<mounts, orphans>>
    /\ Respond(t, "ok")
    /\ UNCHANGED <<op, todo, writing, granted, lock, depth, dead, dir, cache, kubelet,
                   perms, faults>>

\* The lock is free: the Mount is tracked; the one it replaces is dropped.
TrackMount(t) ==
    /\ pc[t] = "track"
    /\ lock = NULL
    /\ mounts' = [mounts EXCEPT ![VolumeOf[t]] = t]
    /\ DropMount(VolumeOf[t], mounts[VolumeOf[t]])
    /\ Respond(t, "ok")
    /\ UNCHANGED <<op, todo, writing, granted, lock, depth, dead, dir, cache, kubelet,
                   perms, faults>>

-----------------------------------------------------------------------------
(* node_unpublish_volume *)

Unpublish(t) ==
    /\ pc[t] = "idle"
    /\ kubelet[t] = "stopping"
    /\ op' = [op EXCEPT ![t] = "unpublish"]
    /\ Goto(t, "wait")
    /\ UNCHANGED <<reply, todo, writing, granted, mounts, lock, kernel, cache, kubelet,
                   perms, faults>>

\* Mutation of RemoveMount: the unmount is spawned and not awaited.
RemoveMountDetached(t) ==
    /\ pc[t] = "wait"
    /\ lock = NULL
    /\ LET tracked == mounts[VolumeOf[t]] IN
        orphans' = IF tracked = NULL THEN orphans
                   ELSE [orphans EXCEPT ![tracked].unmount = @ + 1]
    /\ mounts' = [mounts EXCEPT ![VolumeOf[t]] = NULL]
    /\ Respond(t, "ok")
    /\ UNCHANGED <<op, todo, writing, granted, lock, depth, dead, dir, cache, kubelet, perms,
                   faults>>

\* Mutation of RemoveMount: the case that nothing is tracked is forgotten.
RemoveMountAlways(t) ==
    /\ pc[t] = "wait"
    /\ lock = NULL
    /\ lock' = [holder |-> t, target |-> mounts[VolumeOf[t]]]
    /\ mounts' = [mounts EXCEPT ![VolumeOf[t]] = NULL]
    /\ Goto(t, "unmount")
    /\ UNCHANGED <<op, reply, todo, writing, granted, kernel, cache, kubelet, perms, faults>>

\* The lock is free: whatever is tracked for the volume is removed and its
\* target unmounted under the lock.  Nothing is tracked: nothing to do.
RemoveMount(t) ==
    /\ pc[t] = "wait"
    /\ lock = NULL
    /\ LET tracked == mounts[VolumeOf[t]] IN
        \/ /\ tracked # NULL
           /\ mounts' = [mounts EXCEPT ![VolumeOf[t]] = NULL]
           /\ lock' = [holder |-> t, target |-> tracked]
           /\ Goto(t, "unmount")
           /\ UNCHANGED reply
        \/ /\ tracked = NULL
           /\ Respond(t, "ok")
           /\ UNCHANGED <<mounts, lock>>
    /\ UNCHANGED <<op, todo, writing, granted, kernel, cache, kubelet, perms, faults>>

\* One mount of the tracked target is taken off.
UnmountTarget(t) ==
    /\ pc[t] = "unmount"
    /\ depth' = [depth EXCEPT ![lock.target] = @ - 1]
    /\ lock' = NULL
    /\ Respond(t, "ok")
    /\ UNCHANGED <<op, todo, writing, granted, mounts, dead, dir, orphans, cache, kubelet,
                   perms, faults>>

\* Mutation of UnmountFails: the lock is not released.
UnmountFailsLocked(t) ==
    /\ pc[t] = "unmount"
    /\ Fault("unmount_error")
    /\ Respond(t, "error")
    /\ UNCHANGED <<op, todo, writing, granted, mounts, lock, kernel, cache, kubelet, perms>>

\* The unmount fails, because the target is busy for instance.
UnmountFails(t) ==
    /\ pc[t] = "unmount"
    /\ Fault("unmount_error")
    /\ lock' = NULL
    /\ Respond(t, "error")
    /\ UNCHANGED <<op, todo, writing, granted, mounts, kernel, cache, kubelet, perms>>

-----------------------------------------------------------------------------
(* The kubelet, dropped handlers, the process and the cluster *)

\* The kubelet takes the response; it repeats a call that failed.
Receive(t) ==
    /\ pc[t] = "done"
    /\ Forget(t)
    /\ kubelet' = IF reply[t] = "ok"
                  THEN [kubelet EXCEPT ![t] = IF op[t] = "publish" THEN "up" ELSE "gone"]
                  ELSE kubelet
    /\ UNCHANGED <<mounts, lock, kernel, cache, perms, faults>>

\* The pod is deleted.
StopPod(t) ==
    /\ pc[t] = "idle"
    /\ kubelet[t] \in {"starting", "up"}
    /\ kubelet' = [kubelet EXCEPT ![t] = "stopping"]
    /\ UNCHANGED <<locals, mounts, lock, kernel, cache, perms, faults>>

\* The response does not reach the kubelet.
LoseReply(t) ==
    /\ pc[t] = "done"
    /\ Fault("lost_reply")
    /\ Forget(t)
    /\ UNCHANGED <<mounts, lock, kernel, cache, kubelet, perms>>

\* The kubelet gives up: the handler is dropped at its await.
Cancel(t) ==
    /\ pc[t] \in Awaits
    /\ Fault("cancel")
    /\ Forget(t)
    /\ \/ pc[t] \notin {"bind", "fuse", "track", "unmount"}
          /\ UNCHANGED <<lock, depth, orphans>>
       \/ pc[t] = "bind"
          /\ orphans' = [orphans EXCEPT ![t].mount = @ + 1]
          /\ UNCHANGED <<lock, depth>>
       \/ pc[t] = "fuse"
          /\ UNCHANGED lock
          /\ \/ UNCHANGED <<depth, orphans>>
             \/ /\ depth' = [depth EXCEPT ![t] = @ + 1]
                /\ orphans' = [orphans EXCEPT ![t].unmount = @ + 1]
       \/ pc[t] = "track"
          /\ DropMount(VolumeOf[t], t)
          /\ UNCHANGED <<lock, depth>>
       \/ pc[t] = "unmount"
          /\ lock' = NULL
          /\ \/ orphans' = [orphans EXCEPT ![lock.target].unmount = @ + 1]
             \/ Fuse(VolumeOf[t]) /\ UNCHANGED orphans
          /\ UNCHANGED depth
    /\ UNCHANGED <<mounts, dead, dir, cache, kubelet, perms>>

\* A mount whose handler was dropped is made, or fails unseen.
OrphanMounts(t) ==
    /\ orphans[t].mount > 0
    /\ orphans' = [orphans EXCEPT ![t].mount = @ - 1]
    /\ \/ depth' = [depth EXCEPT ![t] = @ + 1] /\ UNCHANGED faults
       \/ Fault("mount_error") /\ UNCHANGED depth
    /\ UNCHANGED <<locals, mounts, lock, dead, dir, cache, kubelet, perms>>

OrphanUnmounts(t) ==
    /\ orphans[t].unmount > 0
    /\ orphans' = [orphans EXCEPT ![t].unmount = @ - 1]
    /\ \/ depth' = [depth EXCEPT ![t] = @ - 1] /\ UNCHANGED faults
       \/ Fault("unmount_error") /\ UNCHANGED depth
    /\ UNCHANGED <<locals, mounts, lock, dead, dir, cache, kubelet, perms>>

\* The process restarts: handlers, tracked mounts and fuse sessions are gone,
\* the mount table and the cache (a hostPath) stay.
Restart ==
    /\ Fault("restart")
    /\ pc' = [t \in Targets |-> "idle"]
    /\ reply' = [t \in Targets |-> "none"]
    /\ todo' = [t \in Targets |-> {}]
    /\ writing' = [t \in Targets |-> NULL]
    /\ granted' = [t \in Targets |-> {}]
    /\ mounts' = [v \in Volumes |-> NULL]
    /\ lock' = NULL
    /\ orphans' = [t \in Targets |-> NoOrphans]
    /\ dead' = [t \in Targets |-> dead[t] \/ (Fuse(VolumeOf[t]) /\ depth[t] > 0)]
    /\ UNCHANGED <<op, depth, dir, cache, kubelet, perms>>

\* An administrator changes what the pod's service account may get.
SetPermissions(t, set) ==
    /\ Fault("rbac")
    /\ perms' = [perms EXCEPT ![t] = set]
    /\ granted' = [granted EXCEPT ![t] = IF pc[t] = "idle" THEN {} ELSE @ \cup set]
    /\ UNCHANGED <<pc, op, reply, todo, writing, mounts, lock, kernel, cache, kubelet>>

-----------------------------------------------------------------------------
\* What the handler of t does by itself.
Handler(t) ==
    \/ GetFullDataMount(t) \/ ReviewNode(t) \/ ReviewSecret(t) \/ Deny(t) \/ GetOperator(t)
    \/ Prepare(t) \/ PrepareDead(t)
    \/ ListSource(t) \/ CreateFile(t) \/ FinishFile(t) \/ EndDownload(t)
    \/ MountTarget(t) \/ TrackMount(t)
    \/ RemoveMount(t) \/ UnmountTarget(t)

HandlerFails(t) ==
    ApiFails(t) \/ SourceFails(t) \/ DownloadFails(t) \/ MountFails(t) \/ UnmountFails(t)

Orphan(t) == OrphanMounts(t) \/ OrphanUnmounts(t)

Next ==
    \/ \E t \in Targets :
        \/ Publish(t) \/ Unpublish(t) \/ Receive(t) \/ StopPod(t)
        \/ Handler(t) \/ HandlerFails(t) \/ Orphan(t)
        \/ LoseReply(t) \/ Cancel(t)
        \/ \E set \in SUBSET Permissions : SetPermissions(t, set)
    \/ Restart

Spec == Init /\ [][Next]_vars

\* Handlers and blocking tasks run to their end, the API server and the data
\* source answer, the tokio Mutex is first come first served, and the kubelet
\* takes responses and retries.
Fairness ==
    \A t \in Targets :
        /\ SF_vars(Handler(t)) /\ WF_vars(Orphan(t)) /\ WF_vars(Receive(t))
        /\ WF_vars(Publish(t)) /\ WF_vars(Unpublish(t))

FairSpec == Spec /\ Fairness

-----------------------------------------------------------------------------
(* Properties *)

InFlight(t) == pc[t] # "idle"
Mounted(t) == depth[t] > 0 /\ ~dead[t]

HandlersTyped ==
    /\ pc \in [Targets -> Awaits \cup {"idle", "done"}]
    /\ op \in [Targets -> {"publish", "unpublish"}]
    /\ reply \in [Targets -> {"none", "ok", "error"}]
    /\ todo \in [Targets -> SUBSET Files]
    /\ writing \in [Targets -> Files \cup {NULL}]
    /\ granted \in [Targets -> SUBSET Permissions]

NodeTyped ==
    /\ mounts \in [Volumes -> Targets \cup {NULL}]
    /\ lock \in [holder : Targets, target : Targets] \cup {NULL}
    /\ depth \in [Targets -> Int]
    /\ dead \in [Targets -> BOOLEAN]
    /\ dir \in [Targets -> BOOLEAN]
    /\ cache \in [Volumes -> [Files -> Targets \cup {NULL, FULL}]]
    /\ orphans \in [Targets -> [mount : Nat, unmount : Nat]]

OutsideTyped ==
    /\ kubelet \in [Targets -> {"new", "starting", "up", "stopping", "gone"}]
    /\ perms \in [Targets -> SUBSET Permissions]
    /\ faults \in 0 .. MaxFaults

\* Every variable holds what its declaration says.
TypeOK == HandlersTyped /\ NodeTyped /\ OutsideTyped

\* The mounts of t that something is going to unmount, or counts on: the
\* tracked one, one about to be tracked, one that is being unmounted under
\* the lock, and those that unmounts without a handler will take.
Owed(t) ==
    (IF mounts[VolumeOf[t]] = t THEN 1 ELSE 0)
    + (IF pc[t] = "track" THEN 1 ELSE 0)
    + (IF lock # NULL /\ lock.target = t THEN 1 ELSE 0)
    + orphans[t].unmount

\* Every tracked Mount and every unmount under way has a mount of its own,
\* under all faults and with volumes shared between pods: the service never
\* takes a mount twice and never tracks what is not mounted.
MountsBalanced == \A t \in Targets : depth[t] >= Owed(t)

\* A volume the kubelet believes to be published is mounted.
UpMeansMounted == \A t \in Targets : kubelet[t] = "up" => Mounted(t)

\* While a pod uses a cached volume every file of it is there and complete.
PublishedCacheComplete ==
    \A t \in Targets :
        kubelet[t] = "up" /\ Cached(VolumeOf[t]) =>
            \A f \in Files : cache[VolumeOf[t]][f] = FULL

\* A published volume is tracked, so that it can be unpublished.
MountsTracked ==
    \A t \in Targets : kubelet[t] = "up" => mounts[VolumeOf[t]] = t

\* Once the kubelet was told that t is unpublished, nothing is mounted there
\* and nothing will be.
GoneMeansUnmounted ==
    \A t \in Targets :
        kubelet[t] = "gone" => depth[t] = 0 /\ orphans[t].mount = 0

\* No data is probed, downloaded or mounted for a pod unless its service
\* account held every needed permission at some time during the call.
NoUnreviewedData ==
    \A t \in Targets :
        pc[t] \in {"operator", "probe", "list", "download", "bind", "fuse", "track"} =>
            Needed(VolumeOf[t]) \subseteq granted[t]

\* Every call ends, whatever other calls hold the lock, fail or are dropped.
CallsEnd == \A t \in Targets : InFlight(t) ~> ~InFlight(t)

\* A pod with a cached volume starts, unless it is deleted first.
CachedComesUp ==
    \A t \in Targets :
        Cached(VolumeOf[t]) /\ kubelet[t] = "starting" ~> kubelet[t] \in {"up", "stopping"}

\* With volumes that are not shared, and with calls that are answered and fail
\* before the mount only, each target lives as the kubelet expects.
Lifecycle == INSTANCE VolumeLifecycle WITH
    phase <- kubelet, available <- {t \in Targets : Mounted(t)}

ImplementsLifecycle == Lifecycle!Spec

=============================================================================
