------------------------- MODULE NodeServiceProofs -------------------------
(***************************************************************************)
(* Proofs about NodeService, for every value of its constants: any number  *)
(* of volumes, of targets per volume, of files and of faults of any kind.  *)
(***************************************************************************)
EXTENDS NodeService, TLAPS

(***************************************************************************)
(* The inductive invariant.  The lock is held exactly by the unpublish that *)
(* is unmounting, a volume is only tracked with a target of its own, and a *)
(* handler has seen, or will see, only permissions held during its call.   *)
(***************************************************************************)
LockOK ==
    \A t \in Targets : pc[t] = "unmount" <=> (lock # NULL /\ lock.holder = t)

TrackedOK ==
    \A v \in Volumes : mounts[v] # NULL => VolumeOf[mounts[v]] = v

GrantedOK ==
    \A t \in Targets :
        /\ pc[t] \in {"fetch", "review_node", "review_secret"} => perms[t] \subseteq granted[t]
        /\ pc[t] = "review_secret" => "datanode" \in granted[t]

NInv == TypeOK /\ LockOK /\ TrackedOK /\ MountsBalanced /\ GrantedOK /\ NoUnreviewedData

LEMMA InitNInv == Init => NInv
BY ConstantsAssumption
   DEF Init, NInv, TypeOK, HandlersTyped, NodeTyped, OutsideTyped, LockOK, TrackedOK, MountsBalanced, Owed, GrantedOK,
       NoUnreviewedData, NoOrphans, Permissions

-----------------------------------------------------------------------------
(* Type correctness *)

LEMMA HandlersStep ==
    ASSUME TypeOK, [Next]_vars
    PROVE  HandlersTyped'
<1> USE DEF TypeOK, HandlersTyped, Goto
<1>1. ASSUME NEW t \in Targets, Handler(t)
      PROVE  HandlersTyped'
  <2>1. CASE GetFullDataMount(t)
    BY <2>1 DEF GetFullDataMount, Pass, Awaits
  <2>2. CASE ReviewNode(t)
    BY <2>2 DEF ReviewNode, Pass, Awaits
  <2>3. CASE ReviewSecret(t)
    BY <2>3 DEF ReviewSecret, Pass, Awaits
  <2>4. CASE Deny(t)
    BY <2>4 DEF Deny, Fail, Respond
  <2>5. CASE GetOperator(t)
    BY <2>5 DEF GetOperator, Pass, Awaits
  <2>6. CASE Prepare(t)
    BY <2>6 DEF Prepare, Awaits
  <2>7. CASE PrepareDead(t)
    BY <2>7 DEF PrepareDead, Fail, Respond
  <2>8. CASE ListSource(t)
    BY <2>8 DEF ListSource, Awaits
  <2>9. CASE CreateFile(t)
    BY <2>9 DEF CreateFile
  <2>10. CASE FinishFile(t)
    BY <2>10 DEF FinishFile
  <2>11. CASE EndDownload(t)
    BY <2>11 DEF EndDownload, Pass, Awaits
  <2>12. CASE MountTarget(t)
    BY <2>12 DEF MountTarget, Awaits
  <2>13. CASE TrackMount(t)
    BY <2>13 DEF TrackMount, Respond
  <2>14. CASE RemoveMount(t)
    BY <2>14 DEF RemoveMount, Respond, Awaits
  <2>15. CASE UnmountTarget(t)
    BY <2>15 DEF UnmountTarget, Respond
  <2>16. QED
    BY <1>1, <2>1, <2>2, <2>3, <2>4, <2>5, <2>6, <2>7, <2>8, <2>9, <2>10, <2>11, <2>12,
       <2>13, <2>14, <2>15 DEF Handler
<1>2. ASSUME NEW t \in Targets, HandlerFails(t)
      PROVE  HandlersTyped'
  BY <1>2 DEF HandlerFails, ApiFails, SourceFails, DownloadFails, MountFails, UnmountFails,
              Fail, Respond
<1>3. ASSUME NEW t \in Targets, Publish(t)
      PROVE  HandlersTyped'
  BY <1>3 DEF Publish, Respond, Awaits, OutsideTyped
<1>4. ASSUME NEW t \in Targets, Unpublish(t) \/ StopPod(t) \/ Orphan(t)
      PROVE  HandlersTyped'
  BY <1>4 DEF Unpublish, StopPod, Orphan, OrphanMounts, OrphanUnmounts, locals, Awaits
<1>5. ASSUME NEW t \in Targets, Receive(t) \/ LoseReply(t) \/ Cancel(t)
      PROVE  HandlersTyped'
  BY <1>5 DEF Receive, LoseReply, Cancel, Forget
<1>6. ASSUME NEW t \in Targets, NEW set \in SUBSET Permissions, SetPermissions(t, set)
      PROVE  HandlersTyped'
  BY <1>6 DEF SetPermissions
<1>7. CASE Restart
  BY <1>7 DEF Restart
<1>8. CASE UNCHANGED vars
  BY <1>8 DEF vars, locals
<1>9. QED
  BY <1>1, <1>2, <1>3, <1>4, <1>5, <1>6, <1>7, <1>8 DEF Next

\* The counters of unfinished mounts and unmounts stay natural numbers.
LEMMA OrphansTyped ==
    ASSUME NEW counts \in [Targets -> [mount : Nat, unmount : Nat]], NEW t \in Targets
    PROVE  /\ [counts EXCEPT ![t].mount = @ + 1] \in [Targets -> [mount : Nat, unmount : Nat]]
           /\ [counts EXCEPT ![t].unmount = @ + 1] \in [Targets -> [mount : Nat, unmount : Nat]]
           /\ counts[t].mount > 0 =>
                [counts EXCEPT ![t].mount = @ - 1] \in [Targets -> [mount : Nat, unmount : Nat]]
           /\ counts[t].unmount > 0 =>
                [counts EXCEPT ![t].unmount = @ - 1] \in [Targets -> [mount : Nat, unmount : Nat]]
<1> DEFINE c == counts[t]
<1>1. c \in [mount : Nat, unmount : Nat]
  OBVIOUS
<1>2. /\ [c EXCEPT !.mount = @ + 1] \in [mount : Nat, unmount : Nat]
      /\ [c EXCEPT !.unmount = @ + 1] \in [mount : Nat, unmount : Nat]
      /\ c.mount > 0 => [c EXCEPT !.mount = @ - 1] \in [mount : Nat, unmount : Nat]
      /\ c.unmount > 0 => [c EXCEPT !.unmount = @ - 1] \in [mount : Nat, unmount : Nat]
  BY <1>1
<1>3. QED
  BY <1>2

\* The depths stay integers.
LEMMA DepthTyped ==
    ASSUME NEW d \in [Targets -> Int], NEW t \in Targets
    PROVE  /\ [d EXCEPT ![t] = @ + 1] \in [Targets -> Int]
           /\ [d EXCEPT ![t] = @ - 1] \in [Targets -> Int]
OBVIOUS

LEMMA NodeStep ==
    ASSUME TypeOK, LockOK, [Next]_vars
    PROVE  NodeTyped'
<1> USE ConstantsAssumption DEF TypeOK, NodeTyped
<1>1. ASSUME NEW t \in Targets,
             GetFullDataMount(t) \/ ReviewNode(t) \/ ReviewSecret(t) \/ Deny(t) \/ GetOperator(t)
             \/ PrepareDead(t) \/ ListSource(t) \/ EndDownload(t)
      PROVE  NodeTyped'
  BY <1>1 DEF GetFullDataMount, ReviewNode, ReviewSecret, Deny, GetOperator, PrepareDead,
              ListSource, EndDownload, Pass, Fail, kernel
<1>2. ASSUME NEW t \in Targets, Prepare(t) \/ MountTarget(t)
      PROVE  NodeTyped'
  <2>1. CASE Prepare(t)
    BY <2>1 DEF Prepare
  <2>2. CASE MountTarget(t)
    <3>1. depth' \in [Targets -> Int]
      BY <2>2, DepthTyped DEF MountTarget
    <3>2. QED
      BY <2>2, <3>1 DEF MountTarget
  <2>3. QED
    BY <1>2, <2>1, <2>2
<1>3. ASSUME NEW t \in Targets, CreateFile(t)
      PROVE  NodeTyped'
  BY <1>3 DEF CreateFile, kernel, HandlersTyped
<1>4. ASSUME NEW t \in Targets, FinishFile(t)
      PROVE  NodeTyped'
  <2> DEFINE v == VolumeOf[t]
             f == writing[t]
  <2>1. cache' = [cache EXCEPT ![v] = [cache[v] EXCEPT ![f] = IF @ = t THEN FULL ELSE @]]
    BY <1>4 DEF FinishFile
  <2>2. v \in Volumes /\ cache[v] \in [Files -> Targets \cup {NULL, FULL}]
    OBVIOUS
  <2>3. [cache[v] EXCEPT ![f] = IF @ = t THEN FULL ELSE @] \in [Files -> Targets \cup {NULL, FULL}]
    BY <2>2
  <2>4. cache' \in [Volumes -> [Files -> Targets \cup {NULL, FULL}]]
    BY <2>1, <2>2, <2>3
  <2>5. QED
    BY <1>4, <2>4 DEF FinishFile, kernel
<1>5. ASSUME NEW v \in Volumes, NEW t \in Targets \cup {NULL}, DropMount(v, t)
      PROVE  orphans' \in [Targets -> [mount : Nat, unmount : Nat]]
  BY <1>5, OrphansTyped DEF DropMount
<1>6. ASSUME NEW t \in Targets, TrackMount(t)
      PROVE  NodeTyped'
  BY <1>5, <1>6 DEF TrackMount
<1>7. ASSUME NEW t \in Targets, RemoveMount(t)
      PROVE  NodeTyped'
  <2>1. CASE mounts[VolumeOf[t]] = NULL
    BY <1>7, <2>1 DEF RemoveMount, kernel
  <2>2. CASE mounts[VolumeOf[t]] # NULL
    <3>1. /\ mounts' = [mounts EXCEPT ![VolumeOf[t]] = NULL]
          /\ lock' = [holder |-> t, target |-> mounts[VolumeOf[t]]]
          /\ UNCHANGED <<kernel, cache>>
      BY <1>7, <2>2 DEF RemoveMount
    <3>2. mounts' \in [Volumes -> Targets \cup {NULL}]
      BY <3>1
    <3>3. lock' \in [holder : Targets, target : Targets]
      BY <2>2, <3>1
    <3>4. QED
      BY <3>1, <3>2, <3>3 DEF kernel
  <2>3. QED
    BY <2>1, <2>2
<1>8. ASSUME NEW t \in Targets, UnmountTarget(t)
      PROVE  NodeTyped'
  <2>1. depth' \in [Targets -> Int]
    BY <1>8, DepthTyped DEF UnmountTarget, LockOK
  <2>2. QED
    BY <1>8, <2>1 DEF UnmountTarget
<1>9. ASSUME NEW t \in Targets, HandlerFails(t)
      PROVE  NodeTyped'
  BY <1>9 DEF HandlerFails, ApiFails, SourceFails, DownloadFails, MountFails, UnmountFails,
              Fail, kernel
<1>10. ASSUME NEW t \in Targets,
              Publish(t) \/ Unpublish(t) \/ StopPod(t) \/ Receive(t) \/ LoseReply(t)
       PROVE  NodeTyped'
  BY <1>10 DEF Publish, Unpublish, StopPod, Receive, LoseReply, kernel
<1>11. ASSUME NEW t \in Targets, Cancel(t)
       PROVE  NodeTyped'
  <2>1. CASE pc[t] \notin {"bind", "fuse", "track", "unmount"}
    BY <1>11, <2>1 DEF Cancel
  <2>2. CASE pc[t] = "bind"
    <3>1. orphans' = [orphans EXCEPT ![t].mount = @ + 1] /\ UNCHANGED <<lock, depth>>
      BY <1>11, <2>2 DEF Cancel
    <3>2. orphans' \in [Targets -> [mount : Nat, unmount : Nat]]
      BY <3>1, OrphansTyped
    <3>3. QED
      BY <1>11, <3>1, <3>2 DEF Cancel
  <2>3. CASE pc[t] = "fuse"
    <3>1. /\ lock' = lock
          /\ \/ UNCHANGED <<depth, orphans>>
             \/ /\ depth' = [depth EXCEPT ![t] = @ + 1]
                /\ orphans' = [orphans EXCEPT ![t].unmount = @ + 1]
      BY <1>11, <2>3 DEF Cancel
    <3>2. CASE UNCHANGED <<depth, orphans>>
      BY <1>11, <3>1, <3>2 DEF Cancel
    <3>3. CASE /\ depth' = [depth EXCEPT ![t] = @ + 1]
               /\ orphans' = [orphans EXCEPT ![t].unmount = @ + 1]
      <4>1. orphans' \in [Targets -> [mount : Nat, unmount : Nat]]
        BY <3>3, OrphansTyped
      <4>2. depth' \in [Targets -> Int]
        BY <3>3, DepthTyped
      <4>3. QED
        BY <1>11, <3>1, <4>1, <4>2 DEF Cancel
    <3>4. QED
      BY <3>1, <3>2, <3>3
  <2>4. CASE pc[t] = "track"
    BY <1>5, <1>11, <2>4 DEF Cancel
  <2>5. CASE pc[t] = "unmount"
    <3>1. /\ lock' = NULL /\ depth' = depth
          /\ orphans' \in {orphans, [orphans EXCEPT ![lock.target].unmount = @ + 1]}
      BY <1>11, <2>5 DEF Cancel
    <3>2. lock.target \in Targets
      BY <2>5 DEF LockOK
    <3>3. [orphans EXCEPT ![lock.target].unmount = @ + 1]
            \in [Targets -> [mount : Nat, unmount : Nat]]
      BY <3>2, OrphansTyped
    <3>4. orphans' \in [Targets -> [mount : Nat, unmount : Nat]]
      BY <3>1, <3>3
    <3>5. QED
      BY <1>11, <3>1, <3>4 DEF Cancel
  <2>6. QED
    BY <2>1, <2>2, <2>3, <2>4, <2>5
<1>12. ASSUME NEW t \in Targets, Orphan(t)
       PROVE  NodeTyped'
  <2>1. CASE OrphanMounts(t)
    <3>1. orphans' \in [Targets -> [mount : Nat, unmount : Nat]]
      BY <2>1, OrphansTyped DEF OrphanMounts
    <3>2. depth' \in [Targets -> Int]
      BY <2>1, DepthTyped DEF OrphanMounts
    <3>3. QED
      BY <2>1, <3>1, <3>2 DEF OrphanMounts
  <2>2. CASE OrphanUnmounts(t)
    <3>1. orphans' \in [Targets -> [mount : Nat, unmount : Nat]]
      BY <2>2, OrphansTyped DEF OrphanUnmounts
    <3>2. depth' \in [Targets -> Int]
      BY <2>2, DepthTyped DEF OrphanUnmounts
    <3>3. QED
      BY <2>2, <3>1, <3>2 DEF OrphanUnmounts
  <2>3. QED
    BY <1>12, <2>1, <2>2 DEF Orphan
<1>13. ASSUME NEW t \in Targets, NEW set \in SUBSET Permissions, SetPermissions(t, set)
       PROVE  NodeTyped'
  BY <1>13 DEF SetPermissions, kernel
<1>14. CASE Restart
  BY <1>14 DEF Restart, NoOrphans
<1>15. CASE UNCHANGED vars
  BY <1>15 DEF vars, kernel
<1>16. QED
  BY <1>1, <1>2, <1>3, <1>4, <1>6, <1>7, <1>8, <1>9, <1>10, <1>11, <1>12, <1>13, <1>14, <1>15
     DEF Next, Handler

LEMMA OutsideStep ==
    ASSUME TypeOK, [Next]_vars
    PROVE  OutsideTyped'
<1> USE ConstantsAssumption DEF TypeOK, OutsideTyped, Fault
<1>1. ASSUME NEW t \in Targets, Handler(t)
      PROVE  OutsideTyped'
  BY <1>1 DEF Handler, GetFullDataMount, ReviewNode, ReviewSecret, Deny, GetOperator, Prepare,
              PrepareDead, ListSource, CreateFile, FinishFile, EndDownload, MountTarget,
              TrackMount, RemoveMount, UnmountTarget, Pass, Fail
<1>2. ASSUME NEW t \in Targets, HandlerFails(t)
      PROVE  OutsideTyped'
  BY <1>2 DEF HandlerFails, ApiFails, SourceFails, DownloadFails, MountFails, UnmountFails, Fail
<1>3. ASSUME NEW t \in Targets, Publish(t) \/ Unpublish(t) \/ StopPod(t) \/ Receive(t)
      PROVE  OutsideTyped'
  BY <1>3 DEF Publish, Unpublish, StopPod, Receive
<1>4. ASSUME NEW t \in Targets, LoseReply(t) \/ Cancel(t) \/ Orphan(t)
      PROVE  OutsideTyped'
  BY <1>4 DEF LoseReply, Cancel, Orphan, OrphanMounts, OrphanUnmounts
<1>5. ASSUME NEW t \in Targets, NEW set \in SUBSET Permissions, SetPermissions(t, set)
      PROVE  OutsideTyped'
  BY <1>5 DEF SetPermissions
<1>6. CASE Restart
  BY <1>6 DEF Restart
<1>7. CASE UNCHANGED vars
  BY <1>7 DEF vars
<1>8. QED
  BY <1>1, <1>2, <1>3, <1>4, <1>5, <1>6, <1>7 DEF Next

-----------------------------------------------------------------------------
(* The lock, the tracked mounts and the permissions *)

LEMMA LockStep ==
    ASSUME TypeOK, LockOK, [Next]_vars
    PROVE  LockOK'
<1> USE ConstantsAssumption DEF TypeOK, HandlersTyped, NodeTyped, LockOK, Goto, Respond
<1>1. ASSUME NEW t \in Targets, Handler(t)
      PROVE  LockOK'
  <2>1. CASE RemoveMount(t)
    BY <2>1 DEF RemoveMount
  <2>2. CASE UnmountTarget(t)
    BY <2>2 DEF UnmountTarget
  <2>3. CASE ~RemoveMount(t) /\ ~UnmountTarget(t)
    BY <1>1, <2>3
       DEF Handler, GetFullDataMount, ReviewNode, ReviewSecret, Deny, GetOperator, Prepare,
           PrepareDead, ListSource, CreateFile, FinishFile, EndDownload, MountTarget,
           TrackMount, Pass, Fail
  <2>4. QED
    BY <2>1, <2>2, <2>3
<1>2. ASSUME NEW t \in Targets, HandlerFails(t)
      PROVE  LockOK'
  <2>1. CASE UnmountFails(t)
    BY <2>1 DEF UnmountFails
  <2>2. CASE ApiFails(t) \/ SourceFails(t) \/ DownloadFails(t) \/ MountFails(t)
    BY <2>2 DEF ApiFails, SourceFails, DownloadFails, MountFails, Fail
  <2>3. QED
    BY <1>2, <2>1, <2>2 DEF HandlerFails
<1>3. ASSUME NEW t \in Targets,
             Publish(t) \/ Unpublish(t) \/ StopPod(t) \/ Receive(t) \/ LoseReply(t)
      PROVE  LockOK'
  BY <1>3 DEF Publish, Unpublish, StopPod, Receive, LoseReply, Forget, locals
<1>4. ASSUME NEW t \in Targets, Cancel(t)
      PROVE  LockOK'
  <2>1. CASE pc[t] = "unmount"
    BY <1>4, <2>1 DEF Cancel, Forget
  <2>2. CASE pc[t] # "unmount"
    BY <1>4, <2>2 DEF Cancel, Forget
  <2>3. QED
    BY <2>1, <2>2
<1>5. ASSUME NEW t \in Targets, Orphan(t)
      PROVE  LockOK'
  BY <1>5 DEF Orphan, OrphanMounts, OrphanUnmounts, locals
<1>6. ASSUME NEW t \in Targets, NEW set \in SUBSET Permissions, SetPermissions(t, set)
      PROVE  LockOK'
  BY <1>6 DEF SetPermissions
<1>7. CASE Restart
  BY <1>7 DEF Restart
<1>8. CASE UNCHANGED vars
  BY <1>8 DEF vars, locals
<1>9. QED
  BY <1>1, <1>2, <1>3, <1>4, <1>5, <1>6, <1>7, <1>8 DEF Next

LEMMA TrackedStep ==
    ASSUME TypeOK, TrackedOK, [Next]_vars
    PROVE  TrackedOK'
<1> USE ConstantsAssumption DEF TypeOK, NodeTyped, TrackedOK
<1>1. CASE mounts' = mounts
  BY <1>1
<1>2. ASSUME NEW t \in Targets, TrackMount(t)
      PROVE  TrackedOK'
  BY <1>2 DEF TrackMount
<1>3. ASSUME NEW t \in Targets, RemoveMount(t)
      PROVE  TrackedOK'
  BY <1>3 DEF RemoveMount
<1>4. CASE Restart
  BY <1>4 DEF Restart
<1>5. ASSUME NEW t \in Targets, Handler(t), ~TrackMount(t), ~RemoveMount(t)
      PROVE  mounts' = mounts
  BY <1>5
     DEF Handler, GetFullDataMount, ReviewNode, ReviewSecret, Deny, GetOperator, Prepare,
         PrepareDead, ListSource, CreateFile, FinishFile, EndDownload, MountTarget,
         UnmountTarget, Pass, Fail
<1>6. ASSUME NEW t \in Targets, HandlerFails(t)
      PROVE  mounts' = mounts
  BY <1>6 DEF HandlerFails, ApiFails, SourceFails, DownloadFails, MountFails, UnmountFails, Fail
<1>7. ASSUME NEW t \in Targets,
             \/ Publish(t) \/ Unpublish(t) \/ StopPod(t) \/ Receive(t) \/ LoseReply(t)
             \/ Cancel(t) \/ Orphan(t)
      PROVE  mounts' = mounts
  BY <1>7 DEF Publish, Unpublish, StopPod, Receive, LoseReply, Cancel, Orphan, OrphanMounts,
              OrphanUnmounts
<1>8. ASSUME NEW t \in Targets, NEW set \in SUBSET Permissions, SetPermissions(t, set)
      PROVE  mounts' = mounts
  BY <1>8 DEF SetPermissions
<1>9. CASE UNCHANGED vars
  BY <1>1, <1>9 DEF vars
<1>10. QED
  BY <1>1, <1>2, <1>3, <1>4, <1>5, <1>6, <1>7, <1>8, <1>9 DEF Next

LEMMA GrantedStep ==
    ASSUME TypeOK, GrantedOK, NoUnreviewedData, [Next]_vars
    PROVE  GrantedOK' /\ NoUnreviewedData'
<1> USE DEF TypeOK, HandlersTyped, OutsideTyped, GrantedOK, NoUnreviewedData, Goto, Respond,
            Needed
<1>1. ASSUME NEW t \in Targets, Handler(t)
      PROVE  GrantedOK' /\ NoUnreviewedData'
  <2>1. CASE GetFullDataMount(t)
    BY <2>1 DEF GetFullDataMount, Pass
  <2>2. CASE ReviewNode(t)
    BY <2>2 DEF ReviewNode, Pass
  <2>3. CASE ReviewSecret(t)
    BY <2>3 DEF ReviewSecret, Pass
  <2>4. CASE GetOperator(t) \/ EndDownload(t)
    BY <2>4 DEF GetOperator, EndDownload, Pass
  <2>5. CASE Deny(t) \/ PrepareDead(t)
    BY <2>5 DEF Deny, PrepareDead, Fail
  <2>6. CASE Prepare(t) \/ ListSource(t) \/ CreateFile(t) \/ FinishFile(t) \/ MountTarget(t)
    BY <2>6 DEF Prepare, ListSource, CreateFile, FinishFile, MountTarget
  <2>7. CASE TrackMount(t) \/ RemoveMount(t) \/ UnmountTarget(t)
    BY <2>7 DEF TrackMount, RemoveMount, UnmountTarget
  <2>8. QED
    BY <1>1, <2>1, <2>2, <2>3, <2>4, <2>5, <2>6, <2>7 DEF Handler
<1>2. ASSUME NEW t \in Targets, HandlerFails(t)
      PROVE  GrantedOK' /\ NoUnreviewedData'
  BY <1>2 DEF HandlerFails, ApiFails, SourceFails, DownloadFails, MountFails, UnmountFails, Fail
<1>3. ASSUME NEW t \in Targets, Publish(t) \/ Unpublish(t) \/ StopPod(t)
      PROVE  GrantedOK' /\ NoUnreviewedData'
  BY <1>3 DEF Publish, Unpublish, StopPod, locals
<1>4. ASSUME NEW t \in Targets, Receive(t) \/ LoseReply(t) \/ Cancel(t)
      PROVE  GrantedOK' /\ NoUnreviewedData'
  BY <1>4 DEF Receive, LoseReply, Cancel, Forget
<1>5. ASSUME NEW t \in Targets, Orphan(t)
      PROVE  GrantedOK' /\ NoUnreviewedData'
  BY <1>5 DEF Orphan, OrphanMounts, OrphanUnmounts, locals
<1>6. ASSUME NEW t \in Targets, NEW set \in SUBSET Permissions, SetPermissions(t, set)
      PROVE  GrantedOK' /\ NoUnreviewedData'
  BY <1>6 DEF SetPermissions
<1>7. CASE Restart
  BY <1>7 DEF Restart
<1>8. CASE UNCHANGED vars
  BY <1>8 DEF vars, locals
<1>9. QED
  BY <1>1, <1>2, <1>3, <1>4, <1>5, <1>6, <1>7, <1>8 DEF Next

-----------------------------------------------------------------------------
(* The balance of mounts *)

\* Changing one counter of one target, read back.
LEMMA OrphansRead ==
    ASSUME NEW counts \in [Targets -> [mount : Nat, unmount : Nat]],
           NEW t \in Targets, NEW x \in Targets, NEW k \in Int
    PROVE  /\ counts[x].unmount \in Nat
           /\ [counts EXCEPT ![t].mount = @ + k][x].unmount = counts[x].unmount
           /\ [counts EXCEPT ![t].mount = @ - k][x].unmount = counts[x].unmount
           /\ [counts EXCEPT ![t].unmount = @ + k][x].unmount
                = counts[x].unmount + (IF x = t THEN k ELSE 0)
           /\ [counts EXCEPT ![t].unmount = @ - k][x].unmount
                = counts[x].unmount - (IF x = t THEN k ELSE 0)
<1>1. /\ counts[x] \in [mount : Nat, unmount : Nat]
      /\ counts[t] \in [mount : Nat, unmount : Nat]
  OBVIOUS
<1>2. CASE x = t
  BY <1>1, <1>2
<1>3. CASE x # t
  BY <1>1, <1>3
<1>4. QED
  BY <1>2, <1>3

LEMMA BalancedStep ==
    ASSUME TypeOK, LockOK, TrackedOK, MountsBalanced, [Next]_vars
    PROVE  MountsBalanced'
<1> SUFFICES ASSUME NEW x \in Targets
             PROVE  (depth[x] >= Owed(x))'
  BY DEF MountsBalanced
<1> USE ConstantsAssumption DEF TypeOK, HandlersTyped, NodeTyped, Goto, Respond
<1>0. /\ depth[x] \in Int /\ depth[x] >= Owed(x)
      /\ orphans[x].unmount \in Nat
  BY OrphansRead DEF MountsBalanced
<1>1. CASE /\ UNCHANGED <<mounts, lock, depth, orphans>>
           /\ pc'[x] = "track" => pc[x] = "track"
  BY <1>0, <1>1 DEF Owed
<1>2. ASSUME NEW t \in Targets,
             GetFullDataMount(t) \/ ReviewNode(t) \/ ReviewSecret(t) \/ Deny(t) \/ GetOperator(t)
             \/ Prepare(t) \/ PrepareDead(t) \/ ListSource(t) \/ CreateFile(t) \/ FinishFile(t)
             \/ EndDownload(t)
      PROVE  /\ UNCHANGED <<mounts, lock, depth, orphans>>
             /\ pc'[x] = "track" => pc[x] = "track"
  BY <1>2 DEF GetFullDataMount, ReviewNode, ReviewSecret, Deny, GetOperator, Prepare,
              PrepareDead, ListSource, CreateFile, FinishFile, EndDownload, Pass, Fail, kernel
<1>3. ASSUME NEW t \in Targets, MountTarget(t)
      PROVE  (depth[x] >= Owed(x))'
  BY <1>0, <1>3 DEF MountTarget, Owed
<1>4. ASSUME NEW t \in Targets, TrackMount(t)
      PROVE  (depth[x] >= Owed(x))'
  <2> DEFINE v == VolumeOf[t]
             old == mounts[v]
  <2>1. /\ pc[t] = "track" /\ lock' = lock /\ depth' = depth /\ pc' = [pc EXCEPT ![t] = "done"]
        /\ mounts' = [mounts EXCEPT ![v] = t]
        /\ DropMount(v, old)
    BY <1>4 DEF TrackMount
  <2>2. orphans'[x].unmount = orphans[x].unmount + (IF Fuse(v) /\ x = old THEN 1 ELSE 0)
    <3>1. CASE Fuse(v) /\ old # NULL
      <4>1. old \in Targets /\ orphans' = [orphans EXCEPT ![old].unmount = @ + 1]
        BY <2>1, <3>1 DEF DropMount
      <4>2. QED
        BY <3>1, <4>1, OrphansRead
    <3>2. CASE ~(Fuse(v) /\ old # NULL)
      BY <1>0, <2>1, <3>2 DEF DropMount
    <3>3. QED
      BY <3>1, <3>2
  <2>3. QED
    BY <1>0, <2>1, <2>2 DEF Owed, TrackedOK
<1>5. ASSUME NEW t \in Targets, RemoveMount(t)
      PROVE  (depth[x] >= Owed(x))'
  BY <1>0, <1>5 DEF RemoveMount, Owed, TrackedOK, kernel
<1>6. ASSUME NEW t \in Targets, UnmountTarget(t)
      PROVE  (depth[x] >= Owed(x))'
  BY <1>0, <1>6 DEF UnmountTarget, Owed, LockOK
<1>7. ASSUME NEW t \in Targets, HandlerFails(t)
      PROVE  (depth[x] >= Owed(x))'
  <2>1. CASE UnmountFails(t)
    BY <1>0, <2>1 DEF UnmountFails, Owed, kernel
  <2>2. CASE ApiFails(t) \/ SourceFails(t) \/ DownloadFails(t) \/ MountFails(t)
    BY <1>1, <2>2 DEF ApiFails, SourceFails, DownloadFails, MountFails, Fail, kernel
  <2>3. QED
    BY <1>7, <2>1, <2>2 DEF HandlerFails
<1>8. ASSUME NEW t \in Targets,
             Publish(t) \/ Unpublish(t) \/ StopPod(t) \/ Receive(t) \/ LoseReply(t)
      PROVE  /\ UNCHANGED <<mounts, lock, depth, orphans>>
             /\ pc'[x] = "track" => pc[x] = "track"
  BY <1>8 DEF Publish, Unpublish, StopPod, Receive, LoseReply, Forget, kernel, locals
<1>9. ASSUME NEW t \in Targets, Cancel(t)
      PROVE  (depth[x] >= Owed(x))'
  <2>0. mounts' = mounts /\ pc' = [pc EXCEPT ![t] = "idle"]
    BY <1>9 DEF Cancel, Forget
  <2>1. CASE pc[t] \notin {"bind", "fuse", "track", "unmount"}
    BY <1>1, <1>9, <2>0, <2>1 DEF Cancel
  <2>2. CASE pc[t] = "bind"
    <3>1. orphans' = [orphans EXCEPT ![t].mount = @ + 1] /\ UNCHANGED <<lock, depth>>
      BY <1>9, <2>2 DEF Cancel
    <3>2. orphans'[x].unmount = orphans[x].unmount
      BY <3>1, OrphansRead
    <3>3. QED
      BY <1>0, <2>0, <3>1, <3>2 DEF Owed
  <2>3. CASE pc[t] = "fuse"
    <3>1. CASE UNCHANGED <<lock, depth, orphans>>
      BY <1>1, <2>0, <3>1
    <3>2. CASE /\ lock' = lock
               /\ depth' = [depth EXCEPT ![t] = @ + 1]
               /\ orphans' = [orphans EXCEPT ![t].unmount = @ + 1]
      <4>1. orphans'[x].unmount = orphans[x].unmount + (IF x = t THEN 1 ELSE 0)
        BY <3>2, OrphansRead
      <4>2. QED
        BY <1>0, <2>0, <3>2, <4>1 DEF Owed
    <3>3. QED
      BY <1>9, <2>3, <3>1, <3>2 DEF Cancel
  <2>4. CASE pc[t] = "track"
    <3>1. DropMount(VolumeOf[t], t) /\ UNCHANGED <<lock, depth>>
      BY <1>9, <2>4 DEF Cancel
    <3>2. orphans'[x].unmount <= orphans[x].unmount + (IF x = t THEN 1 ELSE 0)
      <4>1. CASE orphans' = orphans
        BY <1>0, <4>1
      <4>2. CASE orphans' = [orphans EXCEPT ![t].unmount = @ + 1]
        BY <1>0, <4>2, OrphansRead
      <4>3. QED
        BY <3>1, <4>1, <4>2 DEF DropMount
    <3>3. orphans'[x].unmount \in Nat
      BY NodeStep, OrphansRead
    <3>4. QED
      BY <1>0, <2>0, <2>4, <3>1, <3>2, <3>3 DEF Owed
  <2>5. CASE pc[t] = "unmount"
    <3>1. /\ lock' = NULL /\ depth' = depth
          /\ orphans' \in {orphans, [orphans EXCEPT ![lock.target].unmount = @ + 1]}
      BY <1>9, <2>5 DEF Cancel
    <3>2. lock # NULL /\ lock.target \in Targets
      BY <2>5 DEF LockOK
    <3>3. orphans'[x].unmount <= orphans[x].unmount + (IF x = lock.target THEN 1 ELSE 0)
      <4>1. CASE orphans' = orphans
        BY <1>0, <4>1
      <4>2. CASE orphans' = [orphans EXCEPT ![lock.target].unmount = @ + 1]
        BY <1>0, <3>2, <4>2, OrphansRead
      <4>3. QED
        BY <3>1, <4>1, <4>2
    <3>4. orphans'[x].unmount \in Nat
      BY NodeStep, OrphansRead
    <3>5. QED
      BY <1>0, <2>0, <2>5, <3>1, <3>2, <3>3, <3>4 DEF Owed
  <2>6. QED
    BY <2>1, <2>2, <2>3, <2>4, <2>5
<1>10. ASSUME NEW t \in Targets, Orphan(t)
       PROVE  (depth[x] >= Owed(x))'
  <2>0. UNCHANGED <<pc, mounts, lock>>
    BY <1>10 DEF Orphan, OrphanMounts, OrphanUnmounts, locals
  <2>1. CASE OrphanMounts(t)
    <3>1. orphans'[x].unmount = orphans[x].unmount
      BY <2>1, OrphansRead DEF OrphanMounts
    <3>2. depth' = [depth EXCEPT ![t] = @ + 1] \/ depth' = depth
      BY <2>1 DEF OrphanMounts
    <3>3. depth'[x] \in {depth[x], depth[x] + 1}
      BY <3>2
    <3>4. QED
      BY <1>0, <2>0, <3>1, <3>3 DEF Owed
  <2>2. CASE OrphanUnmounts(t)
    <3>1. orphans'[x].unmount = orphans[x].unmount - (IF x = t THEN 1 ELSE 0)
      BY <2>2, OrphansRead DEF OrphanUnmounts
    <3>2. depth'[x] \in Int /\ depth'[x] >= depth[x] - (IF x = t THEN 1 ELSE 0)
      BY <1>0, <2>2 DEF OrphanUnmounts
    <3>3. QED
      BY <1>0, <2>0, <3>1, <3>2 DEF Owed
  <2>3. QED
    BY <1>10, <2>1, <2>2 DEF Orphan
<1>11. ASSUME NEW t \in Targets, NEW set \in SUBSET Permissions, SetPermissions(t, set)
       PROVE  (depth[x] >= Owed(x))'
  BY <1>1, <1>11 DEF SetPermissions, kernel
<1>12. CASE Restart
  BY <1>0, <1>12 DEF Restart, NoOrphans, Owed
<1>13. CASE UNCHANGED vars
  BY <1>1, <1>13 DEF vars, kernel, locals
<1>14. QED
  BY <1>1, <1>2, <1>3, <1>4, <1>5, <1>6, <1>7, <1>8, <1>9, <1>10, <1>11, <1>12, <1>13
     DEF Next, Handler

-----------------------------------------------------------------------------
(* The theorems *)

\* NInv is inductive, whatever faults happen and however volumes are shared.
THEOREM Invariance == Spec => []NInv
<1>1. Init => NInv
  BY InitNInv
<1>2. NInv /\ [Next]_vars => NInv'
  BY HandlersStep, NodeStep, OutsideStep, LockStep, TrackedStep, BalancedStep, GrantedStep
     DEF NInv, TypeOK
<1>3. QED
  BY <1>1, <1>2, PTL DEF Spec

\* Every variable holds what its declaration says.
THEOREM TypeCorrect == Spec => []TypeOK
BY Invariance, PTL DEF NInv

\* Every tracked Mount and every unmount under way has a mount of its own in
\* the kernel's table: whatever interleaves, fails, is dropped or restarts,
\* the service unmounts nothing twice and tracks nothing that is not mounted.
THEOREM Balanced == Spec => []MountsBalanced
BY Invariance, PTL DEF NInv

\* No handler gets beyond check_access unless the pod's service account held
\* every permission it needs at some time during the call.
THEOREM ReviewedFirst == Spec => []NoUnreviewedData
BY Invariance, PTL DEF NInv

=============================================================================
