------------------------ MODULE NodePublishedProofs -------------------------
(***************************************************************************)
(* Proofs about NodeService when every target has a volume of its own: what *)
(* the kubelet was told of a volume is true, for any number of targets and *)
(* files.  Which faults each promise survives is in its assumptions.       *)
(***************************************************************************)
EXTENDS NodeServiceProofs

NotShared == \A t, u \in Targets : VolumeOf[t] = VolumeOf[u] => t = u

PublishAwaits == {"fetch", "review_node", "review_secret", "operator", "probe", "list",
                  "download", "bind", "fuse", "track"}

\* A call is one that the kubelet makes in its phase, and a volume is unmounted
\* only by the unpublish of its target.
PhaseOK ==
    \A t \in Targets :
        /\ pc[t] \in PublishAwaits => op[t] = "publish" /\ kubelet[t] = "starting"
        /\ pc[t] \in {"wait", "unmount"} => op[t] = "unpublish" /\ kubelet[t] = "stopping"
        /\ pc[t] = "done" => \/ op[t] = "publish" /\ kubelet[t] = "starting"
                             \/ op[t] = "unpublish" /\ kubelet[t] = "stopping"

OwnLock == lock # NULL => lock.target = lock.holder

\* The kubelet was told, or is about to be told, that t is published.
Told(t) ==
    \/ kubelet[t] = "up"
    \/ pc[t] = "done" /\ op[t] = "publish" /\ reply[t] = "ok"

KInv == NInv /\ PhaseOK /\ OwnLock

LEMMA PhaseStep ==
    ASSUME TypeOK, PhaseOK, [Next]_vars
    PROVE  PhaseOK'
<1> USE DEF TypeOK, HandlersTyped, OutsideTyped, PhaseOK, PublishAwaits, Goto, Respond
<1>1. ASSUME NEW t \in Targets, Handler(t)
      PROVE  PhaseOK'
  <2>1. CASE GetFullDataMount(t) \/ ReviewNode(t) \/ ReviewSecret(t) \/ GetOperator(t)
    BY <2>1 DEF GetFullDataMount, ReviewNode, ReviewSecret, GetOperator, Pass
  <2>2. CASE Deny(t) \/ PrepareDead(t)
    BY <2>2 DEF Deny, PrepareDead, Fail
  <2>3. CASE Prepare(t) \/ ListSource(t) \/ CreateFile(t) \/ FinishFile(t)
    BY <2>3 DEF Prepare, ListSource, CreateFile, FinishFile
  <2>4. CASE EndDownload(t) \/ MountTarget(t) \/ TrackMount(t)
    BY <2>4 DEF EndDownload, MountTarget, TrackMount, Pass
  <2>5. CASE RemoveMount(t) \/ UnmountTarget(t)
    BY <2>5 DEF RemoveMount, UnmountTarget
  <2>6. QED
    BY <1>1, <2>1, <2>2, <2>3, <2>4, <2>5 DEF Handler
<1>2. ASSUME NEW t \in Targets, HandlerFails(t)
      PROVE  PhaseOK'
  BY <1>2 DEF HandlerFails, ApiFails, SourceFails, DownloadFails, MountFails, UnmountFails, Fail
<1>3. ASSUME NEW t \in Targets, Publish(t)
      PROVE  PhaseOK'
  BY <1>3 DEF Publish
<1>4. ASSUME NEW t \in Targets, Unpublish(t) \/ StopPod(t)
      PROVE  PhaseOK'
  BY <1>4 DEF Unpublish, StopPod, locals
<1>5. ASSUME NEW t \in Targets, Receive(t) \/ LoseReply(t) \/ Cancel(t)
      PROVE  PhaseOK'
  BY <1>5 DEF Receive, LoseReply, Cancel, Forget
<1>6. ASSUME NEW t \in Targets, Orphan(t)
      PROVE  PhaseOK'
  BY <1>6 DEF Orphan, OrphanMounts, OrphanUnmounts, locals
<1>7. ASSUME NEW t \in Targets, NEW set \in SUBSET Permissions, SetPermissions(t, set)
      PROVE  PhaseOK'
  BY <1>7 DEF SetPermissions
<1>8. CASE Restart
  BY <1>8 DEF Restart
<1>9. CASE UNCHANGED vars
  BY <1>9 DEF vars, locals
<1>10. QED
  BY <1>1, <1>2, <1>3, <1>4, <1>5, <1>6, <1>7, <1>8, <1>9 DEF Next

LEMMA OwnLockStep ==
    ASSUME NotShared, TypeOK, TrackedOK, OwnLock, [Next]_vars
    PROVE  OwnLock'
<1> USE DEF OwnLock
<1>1. CASE lock' = lock \/ lock' = NULL
  BY <1>1
<1>2. ASSUME NEW t \in Targets, RemoveMount(t), mounts[VolumeOf[t]] # NULL
      PROVE  OwnLock'
  <2>1. lock' = [holder |-> t, target |-> mounts[VolumeOf[t]]]
    BY <1>2 DEF RemoveMount
  <2>2. mounts[VolumeOf[t]] \in Targets /\ VolumeOf[t] \in Volumes
    BY <1>2, ConstantsAssumption DEF TypeOK, NodeTyped
  <2>3. mounts[VolumeOf[t]] = t
    BY <1>2, <2>2 DEF TrackedOK, NotShared
  <2>4. QED
    BY <2>1, <2>3
<1>3. ASSUME NEW t \in Targets, Handler(t), ~(RemoveMount(t) /\ mounts[VolumeOf[t]] # NULL)
      PROVE  lock' = lock \/ lock' = NULL
  BY <1>3
     DEF Handler, GetFullDataMount, ReviewNode, ReviewSecret, Deny, GetOperator, Prepare,
         PrepareDead, ListSource, CreateFile, FinishFile, EndDownload, MountTarget,
         TrackMount, RemoveMount, UnmountTarget, Pass, Fail
<1>4. ASSUME NEW t \in Targets, HandlerFails(t)
      PROVE  lock' = lock \/ lock' = NULL
  BY <1>4 DEF HandlerFails, ApiFails, SourceFails, DownloadFails, MountFails, UnmountFails, Fail
<1>5. ASSUME NEW t \in Targets,
             \/ Publish(t) \/ Unpublish(t) \/ StopPod(t) \/ Receive(t) \/ LoseReply(t)
             \/ Cancel(t) \/ Orphan(t)
      PROVE  lock' = lock \/ lock' = NULL
  BY <1>5 DEF Publish, Unpublish, StopPod, Receive, LoseReply, Cancel, Orphan, OrphanMounts,
              OrphanUnmounts
<1>6. ASSUME NEW t \in Targets, NEW set \in SUBSET Permissions, SetPermissions(t, set)
      PROVE  lock' = lock
  BY <1>6 DEF SetPermissions
<1>7. CASE Restart
  BY <1>1, <1>7 DEF Restart
<1>8. CASE UNCHANGED vars
  BY <1>1, <1>8 DEF vars
<1>9. QED
  BY <1>1, <1>2, <1>3, <1>4, <1>5, <1>6, <1>7, <1>8 DEF Next

\* The common part of the invariants below.
LEMMA KInvariance ==
    ASSUME NotShared
    PROVE  Spec => []KInv
<1>1. Init => PhaseOK /\ OwnLock
  BY DEF Init, PhaseOK, OwnLock, PublishAwaits
<1>2. NInv /\ PhaseOK /\ OwnLock /\ [Next]_vars => (PhaseOK /\ OwnLock)'
  BY PhaseStep, OwnLockStep DEF NInv
<1>3. QED
  BY <1>1, <1>2, Invariance, PTL DEF Spec, KInv

\* The lock is on a target that is stopping.
LEMMA LockStopping ==
    ASSUME KInv, lock # NULL
    PROVE  /\ lock.target \in Targets
           /\ kubelet[lock.target] = "stopping"
           /\ pc[lock.target] = "unmount"
BY DEF KInv, NInv, TypeOK, NodeTyped, LockOK, OwnLock, PhaseOK

-----------------------------------------------------------------------------
(* A published cached volume is mounted, through every fault *)

FuseAwaits == \A t \in Targets : pc[t] = "fuse" => ~Cached(VolumeOf[t])

MountedAt(t) ==
    /\ ~dead[t]
    /\ Told(t) => depth[t] > 0
    /\ orphans[t].unmount > 0 => kubelet[t] \in {"stopping", "gone"}

CachedMounted == \A t \in Targets : Cached(VolumeOf[t]) => MountedAt(t)

LEMMA FuseAwaitsStep ==
    ASSUME TypeOK, FuseAwaits, [Next]_vars
    PROVE  FuseAwaits'
<1> USE DEF TypeOK, HandlersTyped, FuseAwaits, Goto, Respond
<1>1. ASSUME NEW t \in Targets, Handler(t)
      PROVE  FuseAwaits'
  BY <1>1
     DEF Handler, GetFullDataMount, ReviewNode, ReviewSecret, Deny, GetOperator, Prepare,
         PrepareDead, ListSource, CreateFile, FinishFile, EndDownload, MountTarget,
         TrackMount, RemoveMount, UnmountTarget, Pass, Fail
<1>2. ASSUME NEW t \in Targets, HandlerFails(t)
      PROVE  FuseAwaits'
  BY <1>2 DEF HandlerFails, ApiFails, SourceFails, DownloadFails, MountFails, UnmountFails, Fail
<1>3. ASSUME NEW t \in Targets,
             \/ Publish(t) \/ Unpublish(t) \/ StopPod(t) \/ Receive(t) \/ LoseReply(t)
             \/ Cancel(t) \/ Orphan(t)
      PROVE  FuseAwaits'
  BY <1>3 DEF Publish, Unpublish, StopPod, Receive, LoseReply, Cancel, Orphan, OrphanMounts,
              OrphanUnmounts, Forget, locals
<1>4. ASSUME NEW t \in Targets, NEW set \in SUBSET Permissions, SetPermissions(t, set)
      PROVE  FuseAwaits'
  BY <1>4 DEF SetPermissions
<1>5. CASE Restart
  BY <1>5 DEF Restart
<1>6. CASE UNCHANGED vars
  BY <1>6 DEF vars, locals
<1>7. QED
  BY <1>1, <1>2, <1>3, <1>4, <1>5, <1>6 DEF Next

LEMMA MountedStep ==
    ASSUME KInv, FuseAwaits, CachedMounted, [Next]_vars
    PROVE  CachedMounted'
<1> SUFFICES ASSUME NEW x \in Targets, Cached(VolumeOf[x])
             PROVE  MountedAt(x)'
  BY DEF CachedMounted, Cached
<1> USE ConstantsAssumption
    DEF KInv, NInv, TypeOK, HandlersTyped, NodeTyped, OutsideTyped, MountedAt, Told, Goto, Respond
<1>0. /\ MountedAt(x) /\ ~Fuse(VolumeOf[x])
      /\ depth[x] \in Int /\ orphans[x].unmount \in Nat
  BY OrphansRead DEF CachedMounted, Cached, Fuse
<1>1. CASE /\ UNCHANGED <<depth, dead, orphans>>
           /\ Told(x)' => Told(x)
           /\ kubelet[x] \in {"stopping", "gone"} => kubelet'[x] \in {"stopping", "gone"}
  BY <1>0, <1>1
<1>2. ASSUME NEW t \in Targets, Handler(t)
      PROVE  MountedAt(x)'
  <2>1. CASE GetFullDataMount(t) \/ ReviewNode(t) \/ ReviewSecret(t) \/ GetOperator(t)
             \/ EndDownload(t)
    BY <1>1, <2>1 DEF GetFullDataMount, ReviewNode, ReviewSecret, GetOperator, EndDownload,
                      Pass, kernel
  <2>2. CASE Deny(t) \/ PrepareDead(t)
    BY <1>1, <2>2 DEF Deny, PrepareDead, Fail, kernel
  <2>3. CASE Prepare(t) \/ ListSource(t) \/ CreateFile(t) \/ FinishFile(t)
    BY <1>1, <2>3 DEF Prepare, ListSource, CreateFile, FinishFile, kernel
  <2>4. CASE MountTarget(t)
    BY <1>0, <2>4 DEF MountTarget
  <2>5. CASE TrackMount(t)
    <3>1. depth' = depth /\ dead' = dead /\ kubelet' = kubelet
      BY <2>5 DEF TrackMount
    <3>2. orphans'[x] = orphans[x]
      BY <1>0, <2>5, OrphansRead DEF TrackMount, DropMount, TrackedOK
    <3>3. CASE t = x
      <4>1. Owed(x) >= 1
        BY <1>0, <2>5, <3>3 DEF TrackMount, Owed
      <4>2. depth[x] > 0
        BY <1>0, <4>1 DEF MountsBalanced, Owed
      <4>3. QED
        BY <1>0, <3>1, <3>2, <4>2
    <3>4. CASE t # x
      BY <1>0, <2>5, <3>1, <3>2, <3>4 DEF TrackMount
    <3>5. QED
      BY <3>3, <3>4
  <2>6. CASE RemoveMount(t)
    <3>1. pc[t] = "wait" /\ pc'[x] = "done" => op[t] = "unpublish" \/ x # t
      BY DEF PhaseOK
    <3>2. QED
      BY <1>1, <2>6, <3>1 DEF RemoveMount, kernel
  <2>7. CASE UnmountTarget(t)
    <3>1. lock # NULL /\ lock.holder = t
      BY <2>7 DEF UnmountTarget, LockOK
    <3>2. lock.target = t /\ kubelet[t] = "stopping" /\ op[t] = "unpublish"
      BY <2>7, <3>1 DEF OwnLock, PhaseOK, UnmountTarget
    <3>3. CASE x = t
      BY <1>0, <2>7, <3>2, <3>3 DEF UnmountTarget
    <3>4. CASE x # t
      BY <1>0, <2>7, <3>2, <3>4 DEF UnmountTarget
    <3>5. QED
      BY <3>3, <3>4
  <2>8. QED
    BY <1>2, <2>1, <2>2, <2>3, <2>4, <2>5, <2>6, <2>7 DEF Handler
<1>3. ASSUME NEW t \in Targets, HandlerFails(t)
      PROVE  MountedAt(x)'
  BY <1>1, <1>3 DEF HandlerFails, ApiFails, SourceFails, DownloadFails, MountFails,
                    UnmountFails, Fail, kernel
<1>4. ASSUME NEW t \in Targets, Publish(t)
      PROVE  MountedAt(x)'
  BY <1>0, <1>4 DEF Publish, kernel
<1>5. ASSUME NEW t \in Targets, Unpublish(t) \/ StopPod(t)
      PROVE  MountedAt(x)'
  BY <1>0, <1>5 DEF Unpublish, StopPod, kernel, locals
<1>6. ASSUME NEW t \in Targets, Receive(t) \/ LoseReply(t)
      PROVE  MountedAt(x)'
  BY <1>1, <1>6 DEF Receive, LoseReply, Forget, kernel, PhaseOK
<1>7. ASSUME NEW t \in Targets, Cancel(t)
      PROVE  MountedAt(x)'
  <2>0. /\ UNCHANGED <<dead, kubelet>> /\ pc' = [pc EXCEPT ![t] = "idle"]
        /\ Told(x)' => Told(x)
    BY <1>7 DEF Cancel, Forget
  <2>1. CASE pc[t] \notin {"bind", "fuse", "track", "unmount"}
    BY <1>0, <1>7, <2>0, <2>1 DEF Cancel
  <2>2. CASE pc[t] = "bind"
    <3>1. orphans' = [orphans EXCEPT ![t].mount = @ + 1] /\ depth' = depth
      BY <1>7, <2>2 DEF Cancel
    <3>2. orphans'[x].unmount = orphans[x].unmount
      BY <3>1, OrphansRead
    <3>3. QED
      BY <1>0, <2>0, <3>1, <3>2
  <2>3. CASE pc[t] = "fuse"
    <3>1. t # x
      BY <2>3 DEF FuseAwaits
    <3>2. depth'[x] = depth[x] /\ orphans'[x] = orphans[x]
      BY <1>7, <2>3, <3>1 DEF Cancel
    <3>3. QED
      BY <1>0, <2>0, <3>2
  <2>4. CASE pc[t] = "track"
    <3>1. DropMount(VolumeOf[t], t) /\ depth' = depth
      BY <1>7, <2>4 DEF Cancel
    <3>2. orphans'[x] = orphans[x]
      BY <1>0, <3>1 DEF DropMount
    <3>3. QED
      BY <1>0, <2>0, <3>1, <3>2
  <2>5. CASE pc[t] = "unmount"
    <3>1. /\ depth' = depth
          /\ orphans' \in {orphans, [orphans EXCEPT ![lock.target].unmount = @ + 1]}
      BY <1>7, <2>5 DEF Cancel
    <3>2. lock.target = t /\ kubelet[t] = "stopping"
      BY <2>5 DEF LockOK, OwnLock, PhaseOK
    <3>3. CASE x = t
      BY <1>0, <2>0, <3>1, <3>2, <3>3
    <3>4. CASE x # t
      <4>1. orphans'[x] = orphans[x]
        BY <3>1, <3>2, <3>4
      <4>2. QED
        BY <1>0, <2>0, <3>1, <4>1
    <3>5. QED
      BY <3>3, <3>4
  <2>6. QED
    BY <2>1, <2>2, <2>3, <2>4, <2>5
<1>8. ASSUME NEW t \in Targets, Orphan(t)
      PROVE  MountedAt(x)'
  <2>0. UNCHANGED <<pc, op, reply, kubelet, dead>>
    BY <1>8 DEF Orphan, OrphanMounts, OrphanUnmounts, locals
  <2>1. CASE OrphanMounts(t)
    <3>1. orphans'[x].unmount = orphans[x].unmount
      BY <2>1, OrphansRead DEF OrphanMounts
    <3>2. depth' = [depth EXCEPT ![t] = @ + 1] \/ depth' = depth
      BY <2>1 DEF OrphanMounts
    <3>3. depth'[x] \in {depth[x], depth[x] + 1}
      BY <3>2
    <3>4. QED
      BY <1>0, <2>0, <3>1, <3>3
  <2>2. CASE OrphanUnmounts(t)
    <3>1. orphans'[x].unmount = orphans[x].unmount - (IF x = t THEN 1 ELSE 0)
      BY <2>2, OrphansRead DEF OrphanUnmounts
    <3>2. CASE x = t
      <4>1. orphans[x].unmount > 0
        BY <2>2, <3>2 DEF OrphanUnmounts
      <4>2. ~Told(x)
        BY <1>0, <4>1 DEF PhaseOK
      <4>3. QED
        BY <1>0, <2>0, <3>1, <4>1, <4>2
    <3>3. CASE x # t
      <4>1. depth'[x] = depth[x]
        BY <2>2, <3>3 DEF OrphanUnmounts
      <4>2. QED
        BY <1>0, <2>0, <3>1, <3>3, <4>1
    <3>4. QED
      BY <3>2, <3>3
  <2>3. QED
    BY <1>8, <2>1, <2>2 DEF Orphan
<1>9. ASSUME NEW t \in Targets, NEW set \in SUBSET Permissions, SetPermissions(t, set)
      PROVE  MountedAt(x)'
  BY <1>1, <1>9 DEF SetPermissions, kernel
<1>10. CASE Restart
  BY <1>0, <1>10 DEF Restart, NoOrphans
<1>11. CASE UNCHANGED vars
  BY <1>1, <1>11 DEF vars, kernel, locals
<1>12. QED
  BY <1>2, <1>3, <1>4, <1>5, <1>6, <1>7, <1>8, <1>9, <1>10, <1>11 DEF Next

\* When all volumes are cached, a volume that the kubelet was told is published
\* is mounted, whatever is dropped, fails, is lost or restarts.
THEOREM PublishedIsMounted ==
    ASSUME NotShared, \A v \in Volumes : Cached(v)
    PROVE  Spec => []UpMeansMounted
<1>1. Init => FuseAwaits /\ CachedMounted
  BY DEF Init, FuseAwaits, CachedMounted, MountedAt, Told, NoOrphans
<1>2. KInv /\ FuseAwaits /\ CachedMounted /\ [Next]_vars => (FuseAwaits /\ CachedMounted)'
  BY FuseAwaitsStep, MountedStep DEF KInv, NInv
<1>3. CachedMounted => UpMeansMounted
  BY ConstantsAssumption DEF CachedMounted, MountedAt, Told, UpMeansMounted, Mounted
<1>4. QED
  BY <1>1, <1>2, <1>3, KInvariance, PTL DEF Spec

-----------------------------------------------------------------------------
(* The cache of a published volume is complete, through every fault *)

WritingOK == \A t \in Targets : pc[t] \notin {"download", "done"} => writing[t] = NULL

Complete(t) == \A f \in Files : cache[VolumeOf[t]][f] = FULL

CacheAt(t) ==
    /\ pc[t] \in {"bind", "track"} => Complete(t)
    /\ Told(t) => Complete(t)
    /\ pc[t] = "download" =>
        /\ \A f \in Files \ todo[t] : cache[VolumeOf[t]][f] = FULL
        /\ writing[t] # NULL => /\ writing[t] \in todo[t]
                                /\ cache[VolumeOf[t]][writing[t]] = t

CachesFilled == \A t \in Targets : Cached(VolumeOf[t]) => CacheAt(t)

LEMMA WritingStep ==
    ASSUME TypeOK, WritingOK, [Next]_vars
    PROVE  WritingOK'
<1> USE DEF TypeOK, HandlersTyped, WritingOK, Goto, Respond
<1>1. ASSUME NEW t \in Targets, Handler(t)
      PROVE  WritingOK'
  BY <1>1
     DEF Handler, GetFullDataMount, ReviewNode, ReviewSecret, Deny, GetOperator, Prepare,
         PrepareDead, ListSource, CreateFile, FinishFile, EndDownload, MountTarget,
         TrackMount, RemoveMount, UnmountTarget, Pass, Fail
<1>2. ASSUME NEW t \in Targets, HandlerFails(t)
      PROVE  WritingOK'
  BY <1>2 DEF HandlerFails, ApiFails, SourceFails, DownloadFails, MountFails, UnmountFails, Fail
<1>3. ASSUME NEW t \in Targets,
             \/ Publish(t) \/ Unpublish(t) \/ StopPod(t) \/ Receive(t) \/ LoseReply(t)
             \/ Cancel(t) \/ Orphan(t)
      PROVE  WritingOK'
  BY <1>3 DEF Publish, Unpublish, StopPod, Receive, LoseReply, Cancel, Orphan, OrphanMounts,
              OrphanUnmounts, Forget, locals
<1>4. ASSUME NEW t \in Targets, NEW set \in SUBSET Permissions, SetPermissions(t, set)
      PROVE  WritingOK'
  BY <1>4 DEF SetPermissions
<1>5. CASE Restart
  BY <1>5 DEF Restart
<1>6. CASE UNCHANGED vars
  BY <1>6 DEF vars, locals
<1>7. QED
  BY <1>1, <1>2, <1>3, <1>4, <1>5, <1>6 DEF Next

LEMMA CacheStep ==
    ASSUME NotShared, KInv, FuseAwaits, WritingOK, CachesFilled, [Next]_vars
    PROVE  CachesFilled'
<1> SUFFICES ASSUME NEW x \in Targets, Cached(VolumeOf[x])
             PROVE  CacheAt(x)'
  BY DEF CachesFilled, Cached
<1> USE ConstantsAssumption
    DEF KInv, NInv, TypeOK, HandlersTyped, NodeTyped, OutsideTyped, CacheAt, Complete, Told,
        Goto, Respond
<1>0. /\ CacheAt(x) /\ VolumeOf[x] \in Volumes
      /\ cache[VolumeOf[x]] \in [Files -> Targets \cup {NULL, FULL}]
  BY DEF CachesFilled
<1>1. CASE /\ cache'[VolumeOf[x]] = cache[VolumeOf[x]]
           /\ Told(x)' => Told(x)
           /\ pc'[x] \in {"bind", "track"} => Complete(x)
           /\ pc'[x] = "download" => pc[x] = "download" /\ UNCHANGED <<todo[x], writing[x]>>
  BY <1>0, <1>1
<1>2. ASSUME NEW t \in Targets, Handler(t)
      PROVE  CacheAt(x)'
  <2>1. CASE GetFullDataMount(t) \/ ReviewNode(t) \/ ReviewSecret(t) \/ GetOperator(t)
    BY <1>0, <1>1, <2>1 DEF GetFullDataMount, ReviewNode, ReviewSecret, GetOperator, Pass
  <2>2. CASE Deny(t) \/ PrepareDead(t)
    BY <1>0, <1>1, <2>2 DEF Deny, PrepareDead, Fail
  <2>3. CASE Prepare(t)
    BY <1>0, <1>1, <2>3 DEF Prepare
  <2>4. CASE ListSource(t)
    BY <1>0, <2>4 DEF ListSource, WritingOK
  <2>5. CASE CreateFile(t)
    <3>1. PICK f \in todo[t] : /\ writing' = [writing EXCEPT ![t] = f]
                               /\ cache' = [cache EXCEPT ![VolumeOf[t]][f] = t]
      BY <2>5 DEF CreateFile
    <3>2. f \in Files
      BY <3>1
    <3>3. CASE t = x
      <4>1. cache'[VolumeOf[x]] = [cache[VolumeOf[x]] EXCEPT ![f] = x]
        BY <1>0, <3>1, <3>3
      <4>2. /\ pc[x] = "download" /\ UNCHANGED <<pc, op, reply, todo, kubelet>>
            /\ writing'[x] = f
        BY <2>5, <3>1, <3>3 DEF CreateFile
      <4>3. ~Told(x)
        BY <4>2 DEF PhaseOK, PublishAwaits
      <4>4. QED
        BY <1>0, <3>1, <3>2, <3>3, <4>1, <4>2, <4>3
    <3>4. CASE t # x
      <4>1. cache'[VolumeOf[x]] = cache[VolumeOf[x]]
        BY <1>0, <3>1, <3>4 DEF NotShared
      <4>2. UNCHANGED <<pc, op, reply, todo, kubelet>> /\ writing'[x] = writing[x]
        BY <2>5, <3>1, <3>4 DEF CreateFile
      <4>3. QED
        BY <1>0, <1>1, <4>1, <4>2
    <3>5. QED
      BY <3>3, <3>4
  <2>6. CASE FinishFile(t)
    <3>1. /\ pc[t] = "download" /\ writing[t] # NULL /\ UNCHANGED <<pc, op, reply, kubelet>>
          /\ cache' = [cache EXCEPT ![VolumeOf[t]][writing[t]] = IF @ = t THEN FULL ELSE @]
          /\ todo' = [todo EXCEPT ![t] = @ \ {writing[t]}]
          /\ writing' = [writing EXCEPT ![t] = NULL]
      BY <2>6 DEF FinishFile
    <3>2. CASE t = x
      <4>1. /\ writing[x] \in Files /\ cache[VolumeOf[x]][writing[x]] = x
            /\ todo'[x] = todo[x] \ {writing[x]} /\ writing'[x] = NULL
        BY <1>0, <3>1, <3>2
      <4>2. cache'[VolumeOf[x]] = [cache[VolumeOf[x]] EXCEPT ![writing[x]] = FULL]
        BY <1>0, <3>1, <3>2, <4>1
      <4>3. ~Told(x)
        BY <3>1, <3>2 DEF PhaseOK, PublishAwaits
      <4>4. QED
        BY <1>0, <3>1, <3>2, <4>1, <4>2, <4>3
    <3>3. CASE t # x
      <4>1. cache'[VolumeOf[x]] = cache[VolumeOf[x]]
        BY <1>0, <3>1, <3>3 DEF NotShared
      <4>2. todo'[x] = todo[x] /\ writing'[x] = writing[x]
        BY <3>1, <3>3
      <4>3. QED
        BY <1>0, <1>1, <3>1, <4>1, <4>2
    <3>4. QED
      BY <3>2, <3>3
  <2>7. CASE EndDownload(t)
    BY <1>0, <1>1, <2>7 DEF EndDownload, Pass
  <2>8. CASE MountTarget(t)
    BY <1>0, <1>1, <2>8 DEF MountTarget, FuseAwaits
  <2>9. CASE TrackMount(t)
    BY <1>0, <2>9 DEF TrackMount
  <2>10. CASE RemoveMount(t) \/ UnmountTarget(t)
    BY <1>0, <1>1, <2>10 DEF RemoveMount, UnmountTarget, PhaseOK
  <2>11. QED
    BY <1>2, <2>1, <2>2, <2>3, <2>4, <2>5, <2>6, <2>7, <2>8, <2>9, <2>10 DEF Handler
<1>3. ASSUME NEW t \in Targets, HandlerFails(t)
      PROVE  CacheAt(x)'
  BY <1>0, <1>1, <1>3 DEF HandlerFails, ApiFails, SourceFails, DownloadFails, MountFails,
                          UnmountFails, Fail
<1>4. ASSUME NEW t \in Targets, Publish(t)
      PROVE  CacheAt(x)'
  BY <1>0, <1>1, <1>4 DEF Publish
<1>5. ASSUME NEW t \in Targets, Unpublish(t) \/ StopPod(t)
      PROVE  CacheAt(x)'
  BY <1>0, <1>1, <1>5 DEF Unpublish, StopPod, locals
<1>6. ASSUME NEW t \in Targets, Receive(t) \/ LoseReply(t) \/ Cancel(t)
      PROVE  CacheAt(x)'
  BY <1>0, <1>1, <1>6 DEF Receive, LoseReply, Cancel, Forget
<1>7. ASSUME NEW t \in Targets, Orphan(t)
      PROVE  CacheAt(x)'
  BY <1>0, <1>1, <1>7 DEF Orphan, OrphanMounts, OrphanUnmounts, locals
<1>8. ASSUME NEW t \in Targets, NEW set \in SUBSET Permissions, SetPermissions(t, set)
      PROVE  CacheAt(x)'
  BY <1>0, <1>1, <1>8 DEF SetPermissions
<1>9. CASE Restart
  BY <1>0, <1>1, <1>9 DEF Restart
<1>10. CASE UNCHANGED vars
  BY <1>0, <1>1, <1>10 DEF vars, locals
<1>11. QED
  BY <1>2, <1>3, <1>4, <1>5, <1>6, <1>7, <1>8, <1>9, <1>10 DEF Next

\* While a pod uses a cached volume every file of it is there and complete,
\* whatever downloads failed, were dropped or repeated before.
THEOREM PublishedIsComplete ==
    ASSUME NotShared
    PROVE  Spec => []PublishedCacheComplete
<1>1. Init => FuseAwaits /\ WritingOK /\ CachesFilled
  BY DEF Init, FuseAwaits, WritingOK, CachesFilled, CacheAt, Told
<1>2. /\ KInv /\ FuseAwaits /\ WritingOK /\ CachesFilled /\ [Next]_vars
      => (FuseAwaits /\ WritingOK /\ CachesFilled)'
  BY FuseAwaitsStep, WritingStep, CacheStep DEF KInv, NInv
<1>3. CachesFilled => PublishedCacheComplete
  BY DEF CachesFilled, CacheAt, Told, Complete, PublishedCacheComplete
<1>4. QED
  BY <1>1, <1>2, <1>3, KInvariance, PTL DEF Spec

-----------------------------------------------------------------------------
(* A published volume is tracked, as long as the process does not restart *)

ToldTracked == \A t \in Targets : Told(t) => mounts[VolumeOf[t]] = t

LEMMA ToldTrackedStep ==
    ASSUME NotShared, "restart" \notin FaultKinds, KInv, ToldTracked, [Next]_vars
    PROVE  ToldTracked'
<1> SUFFICES ASSUME NEW x \in Targets
             PROVE  (Told(x) => mounts[VolumeOf[x]] = x)'
  BY DEF ToldTracked
<1> USE ConstantsAssumption
    DEF KInv, NInv, TypeOK, HandlersTyped, NodeTyped, OutsideTyped, Told, Goto, Respond
<1>0. /\ Told(x) => mounts[VolumeOf[x]] = x
      /\ VolumeOf[x] \in Volumes
  BY DEF ToldTracked
<1>1. CASE mounts' = mounts /\ (Told(x)' => Told(x))
  BY <1>0, <1>1
<1>2. ASSUME NEW t \in Targets, Handler(t), ~TrackMount(t), ~RemoveMount(t)
      PROVE  mounts' = mounts /\ (Told(x)' => Told(x))
  BY <1>2, <1>0
     DEF Handler, GetFullDataMount, ReviewNode, ReviewSecret, Deny, GetOperator, Prepare,
         PrepareDead, ListSource, CreateFile, FinishFile, EndDownload, MountTarget,
         UnmountTarget, Pass, Fail,
         PhaseOK
<1>3. ASSUME NEW t \in Targets, TrackMount(t)
      PROVE  (Told(x) => mounts[VolumeOf[x]] = x)'
  BY <1>0, <1>3 DEF TrackMount, NotShared
<1>4. ASSUME NEW t \in Targets, RemoveMount(t)
      PROVE  (Told(x) => mounts[VolumeOf[x]] = x)'
  BY <1>0, <1>4 DEF RemoveMount, NotShared, PhaseOK
<1>5. ASSUME NEW t \in Targets, HandlerFails(t)
      PROVE  mounts' = mounts /\ (Told(x)' => Told(x))
  BY <1>5 DEF HandlerFails, ApiFails, SourceFails, DownloadFails, MountFails, UnmountFails, Fail
<1>6. ASSUME NEW t \in Targets, Publish(t) \/ Unpublish(t) \/ StopPod(t)
      PROVE  mounts' = mounts /\ (Told(x)' => Told(x))
  BY <1>6 DEF Publish, Unpublish, StopPod, locals
<1>7. ASSUME NEW t \in Targets, Receive(t) \/ LoseReply(t) \/ Cancel(t)
      PROVE  mounts' = mounts /\ (Told(x)' => Told(x))
  BY <1>7 DEF Receive, LoseReply, Cancel, Forget
<1>8. ASSUME NEW t \in Targets, Orphan(t)
      PROVE  mounts' = mounts /\ (Told(x)' => Told(x))
  BY <1>8 DEF Orphan, OrphanMounts, OrphanUnmounts, locals
<1>9. ASSUME NEW t \in Targets, NEW set \in SUBSET Permissions, SetPermissions(t, set)
      PROVE  mounts' = mounts /\ (Told(x)' => Told(x))
  BY <1>9 DEF SetPermissions
<1>10. ~Restart
  BY DEF Restart, Fault
<1>11. CASE UNCHANGED vars
  BY <1>1, <1>11 DEF vars, locals
<1>12. QED
  BY <1>1, <1>2, <1>3, <1>4, <1>5, <1>6, <1>7, <1>8, <1>9, <1>10, <1>11 DEF Next

LEMMA ToldTrackedInvariance ==
    ASSUME NotShared, "restart" \notin FaultKinds
    PROVE  Spec => []ToldTracked
<1>1. Init => ToldTracked
  BY DEF Init, ToldTracked, Told
<1>2. KInv /\ ToldTracked /\ [Next]_vars => ToldTracked'
  BY ToldTrackedStep
<1>3. QED
  BY <1>1, <1>2, KInvariance, PTL DEF Spec

\* A published volume is tracked, so that it can be unpublished, whatever is
\* dropped or fails, as long as the process does not restart.
THEOREM PublishedIsTracked ==
    ASSUME NotShared, "restart" \notin FaultKinds
    PROVE  Spec => []MountsTracked
<1>1. ToldTracked => MountsTracked
  BY DEF ToldTracked, Told, MountsTracked
<1>2. QED
  BY <1>1, ToldTrackedInvariance, PTL

-----------------------------------------------------------------------------
(* An unpublished volume is not mounted, if failures come before the mount only *)

\* No call is dropped or its reply lost, no unmount fails, nothing restarts.
Benign == FaultKinds \cap {"cancel", "lost_reply", "unmount_error", "restart"} = {}

\* The service has nothing of t to unmount.
Clear(t) ==
    \/ kubelet[t] \in {"new", "starting"} /\ ~(pc[t] = "done" /\ reply[t] = "ok")
    \/ kubelet[t] = "stopping" /\ pc[t] \in {"unmount", "done"}
    \/ kubelet[t] = "gone"

\* Every mount is owed an unmount.
ExactAt(t) ==
    /\ Clear(t) => mounts[VolumeOf[t]] = NULL
    /\ orphans[t] = NoOrphans
    /\ depth[t] = Owed(t)

Exact == \A t \in Targets : ExactAt(t)

LEMMA ExactStep ==
    ASSUME NotShared, Benign, KInv, Exact, [Next]_vars
    PROVE  Exact'
<1> SUFFICES ASSUME NEW x \in Targets
             PROVE  ExactAt(x)'
  BY DEF Exact
<1> USE ConstantsAssumption
    DEF KInv, NInv, TypeOK, HandlersTyped, NodeTyped, OutsideTyped, ExactAt, Clear, Goto, Respond
<1>0. /\ ExactAt(x)
      /\ VolumeOf[x] \in Volumes
      /\ orphans[x].mount = 0 /\ orphans[x].unmount = 0
  BY DEF Exact, NoOrphans
<1>1. CASE /\ UNCHANGED <<mounts, lock, depth, orphans>>
           /\ pc'[x] = "track" <=> pc[x] = "track"
           /\ Clear(x)' => Clear(x)
  BY <1>0, <1>1 DEF Owed
<1>2. ASSUME NEW t \in Targets,
             GetFullDataMount(t) \/ ReviewNode(t) \/ ReviewSecret(t) \/ Deny(t) \/ GetOperator(t)
             \/ Prepare(t) \/ PrepareDead(t) \/ ListSource(t) \/ CreateFile(t) \/ FinishFile(t)
             \/ EndDownload(t)
      PROVE  ExactAt(x)'
  BY <1>1, <1>2
     DEF GetFullDataMount, ReviewNode, ReviewSecret, Deny, GetOperator, Prepare, PrepareDead,
         ListSource, CreateFile, FinishFile, EndDownload, Pass, Fail, kernel, PhaseOK,
         PublishAwaits
<1>3. ASSUME NEW t \in Targets, MountTarget(t)
      PROVE  ExactAt(x)'
  BY <1>0, <1>3 DEF MountTarget, Owed
<1>4. ASSUME NEW t \in Targets, TrackMount(t)
      PROVE  ExactAt(x)'
  <2>1. kubelet[t] = "starting"
    BY <1>4 DEF TrackMount, PhaseOK, PublishAwaits
  <2>2. mounts[VolumeOf[t]] = NULL
    BY <1>4, <2>1 DEF TrackMount, Exact
  <2>3. orphans' = orphans
    BY <1>4, <2>2 DEF TrackMount, DropMount
  <2>4. CASE x = t
    BY <1>0, <1>4, <2>1, <2>2, <2>3, <2>4 DEF TrackMount, Owed
  <2>5. CASE x # t
    BY <1>0, <1>4, <2>3, <2>5 DEF TrackMount, Owed, NotShared
  <2>6. QED
    BY <2>4, <2>5
<1>5. ASSUME NEW t \in Targets, RemoveMount(t)
      PROVE  ExactAt(x)'
  <2>1. kubelet[t] = "stopping" /\ pc[t] = "wait" /\ lock = NULL
    BY <1>5 DEF RemoveMount, PhaseOK
  <2>2. mounts[VolumeOf[t]] \in {t, NULL}
    BY DEF TrackedOK, NotShared
  <2>3. CASE x = t
    BY <1>0, <1>5, <2>1, <2>2, <2>3 DEF RemoveMount, Owed, kernel
  <2>4. CASE x # t
    BY <1>0, <1>5, <2>1, <2>2, <2>4 DEF RemoveMount, Owed, NotShared, kernel
  <2>5. QED
    BY <2>3, <2>4
<1>6. ASSUME NEW t \in Targets, UnmountTarget(t)
      PROVE  ExactAt(x)'
  <2>1. lock # NULL /\ lock.holder = t /\ lock.target = t /\ kubelet[t] = "stopping"
    BY <1>6 DEF UnmountTarget, LockOK, OwnLock, PhaseOK
  <2>2. CASE x = t
    BY <1>0, <1>6, <2>1, <2>2 DEF UnmountTarget, Owed
  <2>3. CASE x # t
    BY <1>0, <1>6, <2>1, <2>3 DEF UnmountTarget, Owed
  <2>4. QED
    BY <2>2, <2>3
<1>7. ASSUME NEW t \in Targets, HandlerFails(t)
      PROVE  ExactAt(x)'
  <2>1. ~UnmountFails(t)
    BY DEF UnmountFails, Fault, Benign
  <2>2. QED
    BY <1>1, <1>7, <2>1
       DEF HandlerFails, ApiFails, SourceFails, DownloadFails, MountFails, Fail, kernel, PhaseOK,
           PublishAwaits
<1>8. ASSUME NEW t \in Targets, Publish(t)
      PROVE  ExactAt(x)'
  BY <1>1, <1>8 DEF Publish, kernel
<1>9. ASSUME NEW t \in Targets, Unpublish(t) \/ StopPod(t)
      PROVE  ExactAt(x)'
  BY <1>1, <1>9 DEF Unpublish, StopPod, kernel, locals
<1>10. ASSUME NEW t \in Targets, Receive(t)
       PROVE  ExactAt(x)'
  BY <1>1, <1>10 DEF Receive, Forget, kernel, PhaseOK
<1>11. ASSUME NEW t \in Targets
       PROVE  ~LoseReply(t) /\ ~Cancel(t)
  BY DEF LoseReply, Cancel, Fault, Benign
<1>12. ASSUME NEW t \in Targets
       PROVE  ~Orphan(t)
  BY DEF Orphan, OrphanMounts, OrphanUnmounts, Exact, NoOrphans
<1>13. ASSUME NEW t \in Targets, NEW set \in SUBSET Permissions, SetPermissions(t, set)
       PROVE  ExactAt(x)'
  BY <1>1, <1>13 DEF SetPermissions, kernel
<1>14. ~Restart
  BY DEF Restart, Fault, Benign
<1>15. CASE UNCHANGED vars
  BY <1>1, <1>15 DEF vars, kernel, locals
<1>16. QED
  BY <1>2, <1>3, <1>4, <1>5, <1>6, <1>7, <1>8, <1>9, <1>10, <1>11, <1>12, <1>13, <1>14, <1>15
     DEF Next, Handler

LEMMA ExactInvariance ==
    ASSUME NotShared, Benign
    PROVE  Spec => []Exact
<1>1. Init => Exact
  BY ConstantsAssumption DEF Init, Exact, ExactAt, Clear, Owed, NoOrphans
<1>2. KInv /\ Exact /\ [Next]_vars => Exact'
  BY ExactStep
<1>3. QED
  BY <1>1, <1>2, KInvariance, PTL DEF Spec

\* What the service has mounted at t while nothing of t is owed to anybody.
LEMMA ClearMeansUnmounted ==
    ASSUME KInv, Exact, NEW t \in Targets, Clear(t), pc[t] \notin {"track", "unmount"}
    PROVE  depth[t] = 0 /\ orphans[t] = NoOrphans
<1>1. ~(lock # NULL /\ lock.target = t)
  BY LockStopping
<1>2. mounts[VolumeOf[t]] = NULL /\ orphans[t] = NoOrphans /\ depth[t] = Owed(t)
  BY DEF Exact, ExactAt
<1>3. QED
  BY <1>1, <1>2, ConstantsAssumption DEF Owed, NoOrphans

\* Once the kubelet was told that a volume is unpublished, nothing is mounted
\* there and nothing will be, as long as calls may fail before the mount only.
THEOREM UnpublishedIsUnmounted ==
    ASSUME NotShared, Benign
    PROVE  Spec => []GoneMeansUnmounted
<1>1. KInv /\ Exact => GoneMeansUnmounted
  <2> SUFFICES ASSUME KInv, Exact, NEW t \in Targets, kubelet[t] = "gone"
               PROVE  depth[t] = 0 /\ orphans[t].mount = 0
    BY DEF GoneMeansUnmounted
  <2>1. Clear(t) /\ pc[t] \notin {"track", "unmount"}
    BY DEF KInv, PhaseOK, PublishAwaits, Clear
  <2>2. QED
    BY <2>1, ClearMeansUnmounted DEF NoOrphans
<1>2. QED
  BY <1>1, KInvariance, ExactInvariance, PTL

-----------------------------------------------------------------------------
(* No fuse session dies but by a restart *)

NoneDead == \A t \in Targets : ~dead[t]

LEMMA NoneDeadStep ==
    ASSUME "restart" \notin FaultKinds, NoneDead, [Next]_vars
    PROVE  NoneDead'
<1>1. ~Restart
  BY DEF Restart, Fault
<1>2. ASSUME NEW t \in Targets, Handler(t) \/ HandlerFails(t)
      PROVE  dead' = dead
  BY <1>2
     DEF Handler, HandlerFails, GetFullDataMount, ReviewNode, ReviewSecret, Deny, GetOperator,
         Prepare, PrepareDead, ListSource, CreateFile, FinishFile, EndDownload, MountTarget,
         TrackMount, RemoveMount, UnmountTarget, ApiFails, SourceFails, DownloadFails,
         MountFails, UnmountFails, Pass, Fail, kernel
<1>3. ASSUME NEW t \in Targets,
             \/ Publish(t) \/ Unpublish(t) \/ StopPod(t) \/ Receive(t) \/ LoseReply(t)
             \/ Cancel(t) \/ Orphan(t) \/ \E set \in SUBSET Permissions : SetPermissions(t, set)
      PROVE  dead' = dead
  BY <1>3 DEF Publish, Unpublish, StopPod, Receive, LoseReply, Cancel, Orphan, OrphanMounts,
              OrphanUnmounts, SetPermissions, kernel
<1>4. CASE UNCHANGED vars
  BY <1>4 DEF vars, kernel, NoneDead
<1>5. QED
  BY <1>1, <1>2, <1>3, <1>4 DEF Next, NoneDead

LEMMA NoneDeadInvariance ==
    ASSUME "restart" \notin FaultKinds
    PROVE  Spec => []NoneDead
<1>1. Init => NoneDead
  BY DEF Init, NoneDead
<1>2. NoneDead /\ [Next]_vars => NoneDead'
  BY NoneDeadStep
<1>3. QED
  BY <1>1, <1>2, PTL DEF Spec

\* A volume that the kubelet was told is published is mounted, by fuse as well,
\* whatever is dropped, fails or is lost, as long as the process does not
\* restart.
THEOREM PublishedIsMountedUntilRestart ==
    ASSUME NotShared, "restart" \notin FaultKinds
    PROVE  Spec => []UpMeansMounted
<1>1. KInv /\ ToldTracked /\ NoneDead => UpMeansMounted
  <2> SUFFICES ASSUME KInv, ToldTracked, NoneDead, NEW t \in Targets, kubelet[t] = "up"
               PROVE  Mounted(t)
    BY DEF UpMeansMounted
  <2>1. mounts[VolumeOf[t]] = t
    BY DEF ToldTracked, Told
  <2>2. depth[t] \in Int /\ orphans[t].unmount \in Nat
    BY DEF KInv, NInv, TypeOK, NodeTyped
  <2>3. depth[t] >= Owed(t)
    BY DEF KInv, NInv, MountsBalanced
  <2>4. QED
    BY <2>1, <2>2, <2>3 DEF Owed, Mounted, NoneDead
<1>2. QED
  BY <1>1, KInvariance, ToldTrackedInvariance, NoneDeadInvariance, PTL

-----------------------------------------------------------------------------
(* The node service implements VolumeLifecycle *)

Available == {t \in Targets : Mounted(t)}

LEMMA LifecycleStep ==
    ASSUME NotShared, Benign, KInv, Exact, ToldTracked, NoneDead, [Next]_vars
    PROVE  [Lifecycle!Next]_(Lifecycle!vars)
<1> USE DEF KInv, NInv, TypeOK, HandlersTyped, NodeTyped, OutsideTyped, Goto, Respond
<1>1. NoneDead'
  BY NoneDeadStep DEF Benign
<1>2. ASSUME UNCHANGED <<kubelet, depth>>
      PROVE  UNCHANGED Lifecycle!vars
  BY <1>1, <1>2 DEF Lifecycle!vars, Mounted, NoneDead
<1>3. ASSUME depth' = depth
      PROVE  UNCHANGED Available
  BY <1>1, <1>3 DEF Available, Mounted, NoneDead
<1>4. ASSUME NEW t \in Targets, MountTarget(t)
      PROVE  Lifecycle!Appear(t)
  <2>1. kubelet[t] = "starting" /\ pc[t] \in {"bind", "fuse"}
    BY <1>4 DEF MountTarget, PhaseOK, PublishAwaits
  <2>2. depth[t] = 0
    BY <2>1, ClearMeansUnmounted DEF Clear
  <2>3. depth' = [depth EXCEPT ![t] = 1] /\ kubelet' = kubelet
    BY <1>4, <2>2 DEF MountTarget
  <2>4. Available' = Available \cup {t} /\ t \notin Available
    BY <1>1, <2>2, <2>3 DEF Available, Mounted, NoneDead
  <2>5. QED
    BY <2>1, <2>3, <2>4 DEF Lifecycle!Appear, Available
<1>5. ASSUME NEW t \in Targets, UnmountTarget(t)
      PROVE  Lifecycle!Disappear(t)
  <2>1. lock # NULL /\ lock.holder = t /\ lock.target = t /\ kubelet[t] = "stopping"
    BY <1>5 DEF UnmountTarget, LockOK, OwnLock, PhaseOK
  <2>2. depth[t] = 1
    <3>1. pc[t] = "unmount" /\ Clear(t)
      BY <1>5, <2>1 DEF UnmountTarget, Clear
    <3>2. mounts[VolumeOf[t]] = NULL /\ orphans[t] = NoOrphans /\ depth[t] = Owed(t)
      BY <3>1 DEF Exact, ExactAt
    <3>3. QED
      BY <2>1, <3>1, <3>2, ConstantsAssumption DEF Owed, NoOrphans
  <2>3. depth' = [depth EXCEPT ![t] = 0] /\ kubelet' = kubelet
    BY <1>5, <2>1, <2>2 DEF UnmountTarget
  <2>4. Available' = Available \ {t} /\ t \in Available
    BY <1>1, <2>2, <2>3 DEF Available, Mounted, NoneDead
  <2>5. QED
    BY <2>1, <2>3, <2>4 DEF Lifecycle!Disappear, Available
<1>6. ASSUME NEW t \in Targets, Handler(t), ~MountTarget(t), ~UnmountTarget(t)
      PROVE  UNCHANGED <<kubelet, depth>>
  BY <1>6
     DEF Handler, GetFullDataMount, ReviewNode, ReviewSecret, Deny, GetOperator, Prepare,
         PrepareDead, ListSource, CreateFile, FinishFile, EndDownload, TrackMount, RemoveMount,
         Pass, Fail, kernel
<1>7. ASSUME NEW t \in Targets, HandlerFails(t)
      PROVE  UNCHANGED <<kubelet, depth>>
  BY <1>7 DEF HandlerFails, ApiFails, SourceFails, DownloadFails, MountFails, UnmountFails, Fail,
              kernel
<1>8. ASSUME NEW t \in Targets, Publish(t)
      PROVE  Lifecycle!Start(t) \/ UNCHANGED <<kubelet, depth>>
  <2>1. depth' = depth /\ kubelet' = [kubelet EXCEPT ![t] = "starting"]
        /\ kubelet[t] \in {"new", "starting"}
    BY <1>8 DEF Publish, kernel
  <2>2. CASE kubelet[t] = "new"
    BY <1>3, <2>1, <2>2 DEF Lifecycle!Start, Lifecycle!Move, Available
  <2>3. CASE kubelet[t] = "starting"
    BY <2>1, <2>3
  <2>4. QED
    BY <2>1, <2>2, <2>3
<1>9. ASSUME NEW t \in Targets, StopPod(t)
      PROVE  Lifecycle!Stop(t)
  BY <1>3, <1>9 DEF StopPod, kernel, Lifecycle!Stop, Lifecycle!Move, Available
<1>10. ASSUME NEW t \in Targets, Receive(t)
       PROVE  Lifecycle!Run(t) \/ Lifecycle!Finish(t) \/ UNCHANGED <<kubelet, depth>>
  <2>1. depth' = depth /\ pc[t] = "done"
    BY <1>10 DEF Receive, kernel
  <2>2. CASE reply[t] # "ok"
    BY <1>10, <2>1, <2>2 DEF Receive
  <2>3. CASE reply[t] = "ok" /\ op[t] = "publish"
    <3>1. kubelet[t] = "starting" /\ kubelet' = [kubelet EXCEPT ![t] = "up"]
      BY <1>10, <2>1, <2>3 DEF Receive, PhaseOK
    <3>2. mounts[VolumeOf[t]] = t
      BY <2>1, <2>3 DEF ToldTracked, Told
    <3>3. depth[t] > 0
      BY <3>2 DEF MountsBalanced, Owed
    <3>4. t \in Available
      BY <3>3 DEF Available, Mounted, NoneDead
    <3>5. QED
      BY <1>3, <2>1, <3>1, <3>4 DEF Lifecycle!Run, Lifecycle!Move, Available
  <2>4. CASE reply[t] = "ok" /\ op[t] = "unpublish"
    <3>1. kubelet[t] = "stopping" /\ kubelet' = [kubelet EXCEPT ![t] = "gone"]
      BY <1>10, <2>1, <2>4 DEF Receive, PhaseOK
    <3>2. depth[t] = 0
      BY <2>1, <3>1, ClearMeansUnmounted DEF Clear
    <3>3. t \notin Available
      BY <3>2 DEF Available, Mounted
    <3>4. QED
      BY <1>3, <2>1, <3>1, <3>3 DEF Lifecycle!Finish, Lifecycle!Move, Available
  <2>5. QED
    BY <2>2, <2>3, <2>4
<1>11. ASSUME NEW t \in Targets,
              Unpublish(t) \/ \E set \in SUBSET Permissions : SetPermissions(t, set)
       PROVE  UNCHANGED <<kubelet, depth>>
  BY <1>11 DEF Unpublish, SetPermissions, kernel
<1>12. ASSUME NEW t \in Targets
       PROVE  ~LoseReply(t) /\ ~Cancel(t) /\ ~Orphan(t)
  BY DEF LoseReply, Cancel, Orphan, OrphanMounts, OrphanUnmounts, Fault, Benign, Exact, ExactAt,
         NoOrphans
<1>13. ~Restart
  BY DEF Restart, Fault, Benign
<1>14. CASE UNCHANGED vars
  BY <1>2, <1>14 DEF vars, kernel
<1>15. QED
  BY <1>2, <1>4, <1>5, <1>6, <1>7, <1>8, <1>9, <1>10, <1>11, <1>12, <1>13, <1>14
     DEF Next, Lifecycle!Next

\* The node service keeps what VolumeLifecycle promises the kubelet: a volume
\* is mounted while it is published only, is there as long as its pod may run,
\* and is taken away once, while it is unpublished.
THEOREM ImplementsTheLifecycle ==
    ASSUME NotShared, Benign
    PROVE  Spec => ImplementsLifecycle
<1>1. Init => Lifecycle!Init
  BY DEF Init, Lifecycle!Init, Mounted
<1>2. "restart" \notin FaultKinds
  BY DEF Benign
<1>3. KInv /\ Exact /\ ToldTracked /\ NoneDead /\ [Next]_vars => [Lifecycle!Next]_(Lifecycle!vars)
  BY LifecycleStep
<1>4. Spec => [](KInv /\ Exact /\ ToldTracked /\ NoneDead)
  BY <1>2, KInvariance, ExactInvariance, ToldTrackedInvariance, NoneDeadInvariance, PTL
<1>5. QED
  BY <1>1, <1>3, <1>4, PTL DEF Spec, ImplementsLifecycle, Lifecycle!Spec

=============================================================================
