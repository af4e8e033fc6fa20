# A verification project for KubeDAL

KubeDAL is a CSI driver that gives Kubernetes pods access to remote data (S3, HTTP) through
PersistentVolumeClaims, and a set of reconcilers for its custom resources. This directory holds TLA+
modules that model its services, its reconcilers and its process, the TLC configurations that check
them on small instances, and TLAPS proofs of the properties that matter most.

Paths below are relative to the repository (`src/services/node.rs` is the node service); some leave out
the leading `src/`.

## 1. Inventory

One binary plays two roles (`src/main.rs`): with `--node-id=controller` it serves the CSI controller
service and runs the reconcilers; otherwise it serves the CSI node service of one node. Both serve
the identity service. Everything is tokio and tonic: each gRPC call is a task that may be dropped at
any await, when the caller gives up.

| component | state | operations | hard behaviour | what makes it correct |
|---|---|---|---|---|
| Controller service, `src/services/controller.rs` | map from volume name to `Volume` in memory, behind a `std` Mutex | `create_volume`, `delete_volume`, `list_volumes` | the lock is released while the claims are listed; retries, dropped calls, lost replies, restarts; claims edited by users meanwhile | one volume per name, an answer stays true until deletion, ids never change meaning, the context is the claim's own |
| Node service, `src/services/node.rs` with `src/util/mount_helper.rs`, `src/util/opendal.rs` | tracked mounts by volume id behind a tokio Mutex; the cache `/mnt/<volume id>`; the kernel's mount table | `node_publish_volume`, `node_unpublish_volume` | many awaits; a lock held across one; blocking tasks that outlive their handler; fuse sessions that die with the process; pods sharing a volume | a published target is mounted and complete, an unpublished one is not mounted, nothing is mounted without a review |
| DataNode reconciler, `src/resource/data_node_controller.rs` | the object's status and finalizer | `reconcile`, `cleanup` | requests go by name while objects are deleted and created anew; the status is written once; the cleanup needs an event to be published | a status is that of the source that was checked; a source that stays reachable becomes available; deleted objects go |
| DataPod reconciler, `src/resource/data_pod_controller.rs` | spec, status, owner and finalizer of the object | `reconcile`, `cleanup` | a forced apply built from a stale copy; a panic when no DataNode matches; the garbage collector follows the owner it writes | an edit that was seen is not undone; paths are not shared; in the end the owner is the DataNode referred to |
| DataReplicaSet reconciler, `src/resource/data_replica_set_controller.rs` | the DataPods, claims and pod it creates | `reconcile`, `cleanup` | a sequence of creations that may stop anywhere, is repeated, and overlaps with that of another process; a selector that may find any DataPod | no more replicas than asked for, one writer per replica, what is left behind has a cause, the set is served |
| Custom resources, `src/resource/crd.rs` | - | types | - | - |
| Controller runtime, `src/resource/controller.rs` | shared client and recorder | `run`: checks the resources, polls the three reconcilers in one task | a missing resource ends the process; a panic ends all reconcilers; a signal stops them | a controller that serves also reconciles |
| Process start and role, `src/main.rs` | a socket file, the servers | start, serve, drain, clean up | stale files of processes that were killed; two processes at one path; clients in the backlog at a signal | a serving process is the one its path leads to; clients get through in the end; the endpoint is served again |
| Identity service, `src/services/identity.rs`, and the constant methods of the others | none | capabilities and the like | three tables, in two services, decide what clients call | what is advertised is implemented |
| CRD generator, generated CSI types, YAML | none | - | - | - |

Interaction: a user writes a claim with annotations; the external-provisioner calls `CreateVolume`
with the name `pvc-<claim uid>`; the controller finds the claim and answers a volume whose context
is read off the annotations; the kubelet hands that context to `NodePublishVolume` on a node, which
reads the DataNode, DataPod and Secret it names, asks the API server for a SubjectAccessReview for
the pod's service account, and mounts. The controller never talks to a node. Controller and node
service share no memory; each volume travels as the volume id and its context.

The reconcilers meet in the API server. The replica set's reconciler creates DataPods, claims and a
pod; the DataPod reconciler makes a DataNode the owner of each DataPod (which the replica set's
reconciler then reads as "the DataNode of the source"); the garbage collector deletes what has no
owner left. In the process they meet in one task: a panic in one stops all of them.

## 2. What is modelled

| module | models |
|---|---|
| `VolumeRegistry` | abstract: what a controller service promises a provisioner that has one call per volume in flight |
| `ControllerService` | the controller service, its claims and its provisioner; implements `VolumeRegistry` |
| `ControllerServiceProofs` | theorems about `ControllerService` |
| `VolumeLifecycle` | abstract: what a node service promises a kubelet whose volumes are not shared |
| `NodeService` | the node service of one node, its kubelet, kernel and permissions; implements `VolumeLifecycle` |
| `NodeLeftovers` | `NodeService` with a history of what may leave a mount behind |
| `NodeServiceProofs` | theorems about `NodeService` |
| `NodePublishedProofs` | more of them, for volumes that are not shared, with the refinement |
| `DataNodeReconciler` | the DataNode reconciler, with the API server's side of a DataNode |
| `DataPodReconciler` | the DataPod reconciler, composed with `DataNodeReconciler` |
| `DataPodReconcilerProofs` | theorems about the two |
| `ReplicaNames` | abstract: what the fixed names of the replicas promise to passes that overlap |
| `DataReplicaSetReconciler` | the DataReplicaSet reconciler, in several processes; implements `ReplicaNames` |
| `DataReplicaSetReconcilerProofs` | theorems about it |
| `NoLeakProofs` | that a claim it leaves without a pod has a cause |
| `ReplicaNamesProofs` | the refinement of `ReplicaNames`, and what follows from it |
| `CsiCalls` | the tables: routing, capabilities, methods that are not implemented |
| `PluginProcess` | the processes that take turns at one endpoint, with their clients; uses `CsiCalls` |
| `PluginProcessProofs` | theorems about it |
| `MCControllerService`, `MCNodeService`, `MCNodeLeftovers`, `MCDataReplicaSetReconciler`, `MCReconcilers` | instances for TLC |

Operators whose comment begins with "Mutation of" are not part of a specification. Each is a
definition with a plausible mistake, put in its place to see that a property notices it
(`PROJECT.json`, "mutants").

### ControllerService

`volumes` is the map, `pc`, `req`, `found` and `reply` are the locals of the handlers, one slot per
concurrent `CreateVolume`. A handler is three atomic stretches, because it has one await
(`list_metadata`): `LookupExisting`/`LookupInvalid`/`LookupMissing` (validation and the lookup under
the lock), `ListClaims` (the API server's answer), `RejectClaim`/`InsertVolume` (errors, or the insert
under the lock). `DeleteVolume` is one stretch under the lock. Around it are external actions: the
provisioner calls, receives, cancels, deletes; users write and delete claims at any time; the process
restarts with an empty map. `answers` and `deleted` are what the provisioner knows, `created` and
`observed` are history variables that no action of the service reads, except that a new id is none of
`created` (`Uuid::new_v4` does not repeat).

Abstractions: `get_config_from_pvc_meta` reads five annotations; they are a record whose absent
fields are `NULL`. The "pvc-" prefix and its removal are the function `UidOf`. Of the capacity range
only `required_bytes` is read by the code. `list_volumes` is the operator `ListVolumes`: it has no
effect. Provisioner calls for one volume are serial when `SerialCalls` is TRUE; CSI asks this of a CO,
but does not rely on it (csi.proto asks plugins to handle several calls gracefully), so both are checked.

### NodeService

`pc[t]` is the await at which the handler serving target `t` is: `fetch` (DataNode, DataPod,
Secret), `review_node`, `review_secret`, `operator` (Secret again, building the OpenDAL operator),
`probe`, then `list` and `download` and `bind` for cached volumes or `fuse` for fuse volumes, `track`
(the lock); and for an unpublish `wait` (the lock) and `unmount` (under the lock). A target is the path
of a volume in a pod; `VolumeOf` may map several targets to one volume, as when pods share a claim.
`mounts` and `lock` are the tracked mounts and the lock; `depth[t]` counts the mounts stacked on `t`;
`dead[t]` says that a fuse session of `t` died; `cache[v][f]` is absent, complete, or truncated by the
publish of some target; `orphans[t]` are mounts and unmounts that go on without a handler.

What a dropped handler leaves depends on its await. At `bind` and at `unmount` the work is on the
blocking pool and completes. At `fuse` the mount exists or not; at `track` it exists; dropping a fuse
handle makes fuse3 unmount in the background, dropping a `Mount` of a cached volume does nothing. A
restart forgets the tracked mounts and kills fuse sessions; the mount table and the cache (a hostPath
in `yamls/csi-driver.yaml`) stay.

`SourceFails` is the probe or the listing. `DownloadFails` is every error of the loop over the entries: a
file that cannot be created, a stream that fails, a directory that cannot be created, an entry of
unknown kind after other files were downloaded.

`NodeLeftovers` adds the variable `left`, which nothing reads but a property. `left[t]` is set by the four
events that may leave a mount on `t`: its handler is dropped where something is mounted or unmounted
unseen (`DropsMount`); the answer of a publish that mounted it is lost (`MountsTwice`); its unmount fails after the
entry was removed (`KeepsMount`); the process restarts while it is mounted (`ForgetsMount`).

Abstractions: file contents are absent, complete or "being written"; the order in which listed files
are downloaded is left open; directories in the cache and the RetryLayer are left out (a source that
fails after all retries is a fault). `get_pod_info` panics when the kubelet does not send the pod
information; the CSIDriver object asks for it, so that is not modelled. The kubelet has one call per
target in flight and cancellation takes effect before its retry begins. The pod's permissions are
reviewed by the API server at the time of the review; `granted` is a history variable of what the
service account could get during the call.

### DataNodeReconciler and DataPodReconciler

All objects are in one namespace. An object has a name and, below it, a uid that is never used again
(`uids` counts them, `MaxUid` bounds them): users delete an object and create another one under its
name at any time. `node` and `pod` are what the API server has, `nCache` and `pCache` what the
informers show, which lags by any number of changes (`ObserveNode`, `ObservePod` copy the present
object). kube-runtime reconciles a name one reconciliation at a time; the three states of its
finalizer helper are `AddNodeFinalizer`/`AddPodFinalizer`, the reconciliation, and
`CleanupNode`/`CleanupPod`.

A DataNode's reconciliation is the early return for an object with a status, the check of its source
(`check`) and the status patch (`status`). A DataPod's is the second fetch (`get`), the search for
its DataNode by reference or by selector (`node`), and the forced apply (`patch`), whose result is the
operator `Applied`: path and reference from the object as cached, selector from the copy fetched,
owner from the DataNode found. The selector branch that finds nothing panics: `running` becomes FALSE
and nothing is reconciled until the process restarts. A cleanup publishes an event first; in a
namespace that is being terminated (`open` is FALSE) the API server takes no new objects and the
cleanup fails.

Abstractions: what a source holds is `up[n]`; a selector finds the DataNodes in `Labelled`, in an
order that is left open; a missing, empty or "/" path is `NULL`; the namespace of a `dataNodeRef` is not
read by the code (see below), so that one namespace is enough; a generated path is the uid it
is made of. Capacities, requests, templates and the event after a patch (its failure only repeats the
reconciliation) are left out. The status that goes with the DataPod's patch is ignored by the API
server, since the resource has a status subresource.

### DataReplicaSetReconciler

`pc[w]` is the request that process `w` makes next: `list` (DataPods by label), `source` (the source
DataPod), `node` (its first owner), `nodes` (all DataNodes), then `replica` and `claim` once per replica, `claim` for
the source, `pod`. Up to two processes run side by side (`Start`, `Stop`): the Deployment replaces its pod by
a rolling update and there is no leader election. A reconciliation that fails, or a process that ends,
leaves what it has created; the next pass begins at `list`. Nothing bounds the number of passes.

The list counts every DataPod of the namespace that the selector finds (`Selected`): replicas that a user
labelled (they are created without labels), the source and other DataPods (`other`) that have the labels, and all of them if the
selector is empty (`all`). A pass goes on from that number: `first[w]` is the index it begins with. Replicas
have fixed names, so that a creation may be refused (`AlreadyExists`). Claims and pods have random names,
and the model tells them apart by `first` instead: no two passes make the replica of one index, and passes that
make no replica are alike.

`source` is `NULL` where the lookups of the code fail: there is no source, it has no owner, or its first
owner is not a DataNode. Otherwise a DataNode is looked for under the first owner's name. The namespace of the
source's reference is not read.

Users scale and delete the set, label DataPods, create and remove other ones, move or remove the source and add and
delete DataNodes; `Adopt` is the owner reference that the DataPod reconciler adds to a replica; `Collect` is
the garbage collector. `Panic` is the DataPod reconciler's panic, which ends the task that polls all
three: the process stays and reconciles nothing (`alive`), until a rollout. `Cleanup` publishes an event
first and cannot take the finalizer while the API server refuses it (`events`).

A DataReplicaSet is created anew only under another uid, and everything it makes is named after the
uid, so `Sets` has the uids. Not modelled here: users who delete replicas, claims or pods by hand.

### CsiCalls and PluginProcess

`CsiCalls` has, as sets and functions of the role, which methods a process routes, which of them
only return `unimplemented`, what the three capability methods report (`Told`), and, as external, what CSI lets a client
call on the strength of it (`PluginOpens`, `ControllerOpens`, `NodeOpens`).

`PluginProcess` has any number of processes that take turns at one socket path. `pc[p]` is where
`main` is: `look` (does the file exist), `remove`, `bind`, `bound` (the socket takes connections, nobody
accepts them yet), `serve`, `drain` (after SIGINT), `unlink`, `exit`. `file` says whose socket the path leads to, or that
it is stale. `recon[p]` is where `run` is: asking for the three kinds in turn, running, stopped,
panicked; a kind that cannot be queried ends the process (`KindMissing`). `main` waits for SIGINT
only; the reconcilers stop on SIGINT and SIGTERM alike. So a pod that is deleted serves without reconciling
until it is killed, and the clean-up of `main` never runs under Kubernetes. A controller's
socket is in a directory of its pod. A node's is in a directory of the host, where the process of a pod deleted by
force (`outcast`) can overlap with the next one; it may find, hold or remove the other's file
(`robbed`). Clients (sidecars, the kubelet) connect, make the calls of their handshake in order, and
then any call that what they were told permits.

A client connects into the listener's backlog (`conn`) and may have made its call already when the server
accepts it (`taken`). At SIGINT `serve_with_incoming_shutdown` accepts nobody any more, ends when the calls it
accepted are answered, and drops its listener with whoever waits there: those calls are lost, in an orderly
shutdown as well. That it waits for the accepted calls is taken from tonic and no property is about it.

Abstractions: a call's contents and effects (the services' modules have them); a failing Probe (it
always says ready); arguments and a missing client configuration, which end the process before it
touches anything.

## 3. Runs

All runs use model values; slots, files, ids and names are symmetric where the `.cfg` says
`SYMMETRY` (only in runs without liveness). `MaxFaults` bounds the number of faults of a behaviour,
`VolumeIds` the number of creations (`IdsLeft` is the guard), `MaxUid` the objects that ever live,
`MaxReplicas` what a set asks for. In `ReplicaSet` `MaxFaults` bounds faults and changes by users
(rollouts, labels, scaling, moves and so on) together. The runs have 23 000 to 721 000 distinct states.

| run | bounds | shows |
|---|---|---|
| `ControllerSerial` | 2 names with claims, requests with and without a capacity, 2 handlers, 2 ids, 1 fault (cancel, list error) | idempotency, clean errors, and the refinement of `VolumeRegistry` (with it, that answers are kept), for a serial provisioner and no restart |
| `ControllerRacing` | 3 names (one without the prefix), 2 handlers, 2 ids, 1 fault incl. restart, racing calls | types, ids name one volume, contexts come from the claim |
| `ControllerLive` | 1 name, 2 handlers, 3 ids, 1 fault incl. restart | a name whose claim stays complete is answered |
| `NodeBenign` | 3 targets of 3 volumes (cached, fuse, unsupported), 2 faults before the mount | tracked while up, unmounted when gone, and the refinement of `VolumeLifecycle` |
| `NodeCached` | 2 targets of 2 cached volumes, 2 files, 2 faults of every kind but rbac | up means mounted, the cache of an up target is complete |
| `NodeShared` | 2 targets sharing a fuse volume with a Secret, 3 faults of every kind | balance of mounts, no data without review |
| `NodeLive` | 2 targets (cached, fuse), 2 faults of every kind that may leave a mount or drop a call | calls end, the unpublish of a deleted pod is answered and its volume unmounted for good unless `left` says why not, cached pods start |
| `ReplicaSet` | 1 set, up to 2 replicas, either selector, 3 DataNodes (one added late), 2 processes, any number of passes, 1 fault or change of every kind | what passes create fits together, what has no pod has a cause, what is deleted is collected, the set is served unless a pass broke off, and the refinement of `ReplicaNames` |
| `Reconcilers` | 2 DataNodes, 1 DataPod, 3 objects in all, 3 specs (reference, reference with path and selector, selector), 2 faults of every kind | the status, the incarnation and the edits of an object; that it settles and that it goes |
| `Process` | 2 processes, 1 client, both roles, 3 faults of every kind | the endpoint is reached, refuses only snapshots, its clients get through, and it is served in the end |

Two handlers and two targets are enough for every pairwise race, and the interesting cases need two
steps of one actor between two of another, which the bounds allow; two faults allow a fault during
the recovery from another. Two ids allow create, delete, create again, or a volume for each of two names.

In `ReplicaSet` one fault or change suffices for a pass that broke off and its retry, for a rollout with two
passes that overlap, or for a label between two passes; the source may have the labels, and the selector may be empty,
without any. (The invariants were checked with two as well, in 3 760 000 states, which takes too long for
the liveness properties.) Three DataNodes are one for the source and one for each replica. In `Reconcilers` one DataNode is there
in the beginning, so that the three uids allow it, a DataPod and one object more: the other DataNode, or
either of them created anew under its old name. In `Process` two processes are the outcast and
the present one; a process that has ended may start again, so that behaviours have any number of
processes, and three faults allow a missing kind and its return around a signal. One client
is enough because clients do not interact; it is in the backlog or accepted, before the signal or after it.

Several properties name what they except:

- `StoppedIsUnmounted`: the four events of `NodeLeftovers`. Each was seen to be necessary: without any
  one of them TLC finds a deleted pod whose unpublish was answered OK and whose volume stays mounted.
- `LeakHasACause`: a fault, and passes of a set that counted the DataPods differently. With an
  empty selector the second needs no fault and no user: a pass that counts one DataPod makes index 1 and its claim,
  another counts the new replica too and makes index 2, the first meets the name and ends.
- `ServedOrAbandoned`: a pass that broke off between its first replica and its pod is never made up for, since
  the names are taken; a set whose selector finds as many DataPods as it asks for, the source for example, is
  never served (`Servable`).
- `DeletedIsCollected`: no reconciler runs after a panic, and the finalizer stays while events are refused.
- `DeletedObjectsGo`, `PodSettles`, `ReachableIsAvailable`: the same, where events are refused in a namespace that is
  terminated.
- `ServesInTheEnd`, `ClientsGetThrough`: a socket that an outcast removed leaves a process that runs and
  is never reached again; `ServesInTheEnd`: so does a panic leave one that reconciles nothing.

These are the ways in which the system really gets stuck, and no property catches them: a change of the code
that removed one would allow a stronger property. `PROJECT.json` ("hazards", "note") says
where a property that is listed for a hazard excepts a part of it.

Two runs are expected to find a violation. Each states a sentence of `proto/csi.proto`
(`PROJECT.json`, "findings"):

| run | the behaviour TLC finds |
|---|---|
| `ControllerRestart` | create, restart, retry: two volumes for the name, although calls are serial |
| `NodeSharedUp` | two pods share a volume; unpublishing the first unmounts the second, without any fault |

Several properties of the passing runs hold only under the assumptions of their run. Changing a
constant of the `.cfg` shows why:

| run | change | what TLC then finds |
|---|---|---|
| `ControllerSerial` | `SerialCalls = FALSE` | two overlapping calls for a name pass the lookup and both insert (`OneVolumePerName`); no run checks what they should do |
| `NodeBenign` | `"unmount_error"` in `FaultKinds` | the entry is removed before the unmount fails; the retry finds none and succeeds (`GoneMeansUnmounted`) |
| `NodeBenign` | `"lost_reply"` in `FaultKinds` | publish mounts twice, unpublish takes one mount off (`GoneMeansUnmounted`) |
| `NodeBenign` | `"restart"` in `FaultKinds` | mounts of running pods are not tracked (`MountsTracked`) |
| `NodeCached` | `VolumeOf <- SharedVolume` | a second publish truncates the cache of a running pod (`PublishedCacheComplete`) |

What holds under all faults is in `ControllerRacing`, `NodeCached`, `NodeShared` and `NodeLive`.
`CHECK_DEADLOCK FALSE`: when every pod is gone the node has nothing left to do; when the bounds on
uids and faults are used up the reconcilers have nothing left to do; a node's process whose socket was
removed just waits.

Three further differences from `csi.proto` are visible without a model, and no property restates
them: `node_publish_volume` does not read `readonly` (line 1492 of the proto), unpublish does not
delete the directory that publish created (line 1517), and `create_volume` answers a registered
volume whatever capacity is asked for (line 350). The claim in the top-level README has no
`data-node-name` annotation, without which `get_config_from_pvc_meta` refuses it.

Further differences between code and comments, seen while modelling and visible in the code:
`controller_get_capabilities` advertises CREATE_DELETE_SNAPSHOT (`services/controller.rs:56`) and both methods
are unimplemented, which is why `OnlySnapshotsRefused` excepts them; every node reports
CONTROLLER_SERVICE (`services/identity.rs`), although only the controller routes it; the "read-only mount to
source" of `data_replica_set_controller.rs:145` is created for writing; "ensure nothing is orphaned"
(line 187) is left to owner references, and replicas get a second owner, their DataNode, so they
outlive the set as long as it does (`DeletedIsCollected` says exactly that); "always overwrite status" in
`data_node_controller.rs:66` comes after an early return for objects that have one; the `namespace` of a reference,
"optional, defaults to resource namespace" (`resource/crd.rs:137`), is read neither by the DataPod reconciler
(`data_pod_controller.rs:77`) nor by that of replica sets (`data_replica_set_controller.rs:89`), which look in
their own object's namespace always.

### Fairness

`ControllerService!Fairness`: handlers run to their end and the provisioner takes responses (weak
fairness: tokio runs every ready task and the API server answers or fails), and each request is
repeated again and again (strong fairness: the external-provisioner retries with back-off for ever; a
slot is a bound of the model and not of the code). Cancellations, failures and restarts are never
fair, and finitely many.

`NodeService!Fairness`: weak fairness of the kubelet's calls and retries and of blocking tasks, and
strong fairness of each handler: tokio's Mutex is first come first served, so a handler that waits
for it gets it although others take it in between. No fairness for the deletion of pods or for faults.

The reconcilers' `Fairness`: weak fairness of each object's reconciliation (kube-runtime runs it
again after a change, an error or five minutes, so a failed one is not the last), of the informers and of the garbage
collector. None for users, faults and the restart of a process after a panic (nothing notices the panic). In
`DataReplicaSetReconciler` `Work` is fair and no work is enabled in a process that panicked.

`PluginProcess!Fairness`: `main`, `run` and clients go on; a container that ended is started again (its
restart policy); a deleted pod is killed after its grace period. None for signals and faults.

## 4. Proofs

All theorems hold for every value of the constants (any number of names, claims, targets, files,
faults), under the `ConstantsAssumption` of the module: the markers `NULL`, `GONE`, `FULL` are not
data, and the functions among the constants have their domains.

**ControllerServiceProofs.** `IInv` is type correctness plus, for each handler: after the lookup its
name is a real name whose uid exists; while it waits, what its claim offers is in `observed`; the claim
it was given is one it observed; an OK reply tells a volume that was inserted for its name. It adds
that ids are unique among `created` and that answers are among `created`. This is what makes
`IdsNameOneVolume` inductive: an answer is only as unique as the insertion it came from. `TypeCorrect`,
`IdsAreUnique` and `ContextsComeFromClaims` follow for racing calls and restarts alike.

Under `NoRestart` (serial calls, and no restart among the faults) `SerialInv` is inductive on top:
between lookup and insert the name stays unregistered, an OK reply is still what is registered, and
every volume that was not deleted is registered under its name. It gives `CreateIsIdempotent`,
`AnswersAreKept`, `DeletedStaysDeleted`, `ErrorsAreClean`, and the refinement
`ImplementsTheRegistry`: insertion is `Register`, receiving an OK answer is `Tell`, deleting is
`Remove`, everything else stutters. The two assumptions are needed: section 3 says what happens
without either.

**NodeServiceProofs.** `NInv` holds for every sharing of volumes and every fault: type correctness;
`LockOK`, the lock is held by exactly the handler that is unmounting; `TrackedOK`, a volume is only
tracked with a target of its own; `MountsBalanced`; `GrantedOK`, what a review may see was held during
the call. `Balanced` says that each tracked `Mount`, each handler between its mount and its insert, the
unmount under the lock, and each unmount in the background has a mount of its own on its target; so
nothing is unmounted twice. It needs `LockOK` (an unmount is counted once) and `TrackedOK` (replacing
an entry concerns a target of the same volume). `ReviewedFirst` says that nothing is probed, downloaded
or mounted without a review of every permission, each held at some time during the call (not all at
one time: the reviews are two requests).

**NodePublishedProofs.** Here every target has a volume of its own (`NotShared`). `PhaseOK` says that a
call is one that the kubelet makes in its phase, `OwnLock` that an unpublish unmounts its own target; then
`MountedStep` shows that nothing takes a mount from a cached volume that is up (an unmount is under way only for a
target that is stopping or gone), `CacheStep` that a file which is not to be downloaded any more is
complete and that one being downloaded is the handler's own, `ToldTrackedStep` and `ExactStep` that each
mount is owed exactly one unmount. Each theorem has the assumptions of its run and no more:
`PublishedIsComplete` none beyond `NotShared`, `PublishedIsMounted` cached volumes, `PublishedIsTracked` no restart,
`UnpublishedIsUnmounted` no dropped call, lost reply, failed unmount or restart (`Benign`).

For the other modes `PublishedIsMountedUntilRestart` says the same as `PublishedIsMounted` without the
hypothesis on the mode: `NoneDead`, a fuse session ends with its process only, and `ToldTracked`, an up
volume is tracked, whose mount `Balanced` counts. A restart is the one fault that takes a fuse volume
from a running pod. `ImplementsTheLifecycle` maps the kubelet's phase and the set of targets where
something usable is mounted to `VolumeLifecycle`: a mount is `Appear`, an unmount `Disappear`, an
answer `Run` or `Finish`, every other await stutters. It uses the invariants of all the theorems
above together, and so it needs the assumptions of all of them. Without `Benign` it is false: a lost
reply mounts a second time, and the volume is still there when its pod is gone.

**DataPodReconcilerProofs.** The code sends no uid with any request; what keeps a reconciliation on
its object is the finalizer. `NodesHeld` and `PodsHeld` say it: an informer that shows an object with
its finalizer and not deleted shows the uid of the object that is there, because only a cleanup
takes the finalizer away, a cleanup needs an informer that shows the object deleted, and no cleanup of
a name runs beside a reconciliation of it. From these follow `IncarnationStays`, then `AvailableIsChecked` (the
status goes to the object whose source was checked), `PathsAreOwn`, and `SeenEditsAreKept`, for which
`TargetsFound` says that the DataNode found is the one referred to. All of it is about one process: two that
overlap could take the finalizer from each other.

**DataReplicaSetReconcilerProofs.** `IInv` holds for any number of processes, passes and faults. `Covered`:
every copy of a set, old as it may be, asks for no more than was ever asked for. `MadeOK`: what a
pass made lies below its next index, on DataNodes that are no longer free. `Apart`: while the set exists, no
two passes or pods have an index in common; this is where the fixed names come in, and it needs
that the garbage collector takes nothing from a set that exists. `HasClaims`: a pass has the claims of
what it made. The theorems are `ReplicasWereAsked`, `OneWriter`, `PodsSpread`, `PodsHaveClaims`.

**NoLeakProofs.** `NoLeak` is about claims with random names, of which nothing keeps passes from making more
and more; what does is a consequence of the names of the replicas. `Uniform(s, k)`: all that was made for `s`
was made by passes that counted `k`. Then `FirstDecides`: no replica comes before that of index `k`, and the
pass that makes it makes each later one, so that it never meets a name that is taken (`NameIsFree`), while every
other pass ends at its first request that creates anything, before it made a claim. `Mounted`: so each claim of
the live set has its pod, or a pass that is on its way to it. Passes that counted differently leave their
count on their claims, which nothing takes from a set that lives: what is uniform after a step was
so before it (`UniformBack`), and the invariant `Settled`, "if uniform, then the first decides",
need not hold again once passes disagreed. Faults are excluded (`faults = 0`); rollouts, labels, scaling,
moves and deletions, of a set in the midst of a pass too, are no faults. `NextLeakInv` sorts the steps by what they
do to a pass (`Aside`, `Before`) and not by action.

**ReplicaNamesProofs.** `ReplicaNames` says in a page what the requests of the reconciler amount to: a
replica is taken by the one process whose creation the API server accepts (`CreateDataPod`), a pass serves all that it
took by one pod (`CreateSyncPod`) or drops it (any other end of a pass, a crash among them), and
the set may go at any moment (`Cleanup`, `Delete`). A pass of a set that is gone does nothing in the
abstract, which is where stale objects and late passes vanish from sight. `ImplementsTheNames` holds for
every fault, with `IInv` as the only invariant: a new set has no replicas, pods or passes because all of
them were asked for (`Covered`), and the beginning of a pass drops nothing because outside of a creation it holds nothing (`LocalOK`).
`LostForGood` follows from the abstract steps alone: what a pass dropped stays without a pod as long as
the set lives. This is the safety half of what `ServedOrAbandoned` has to except.

**PluginProcessProofs.** `Alone`: at most one process beside the outcast is alive. `Reached` follows: whoever
removes a file is its owner, or begins and finds a stale one, or one of the two is the outcast. `CallsServed` and the
lemma `PermittedServed` say that what a client may call on the strength of what it was told is routed
and implemented, except snapshots.

Only model-checked: liveness (`EventuallyAnswered`, `CallsEnd`, `StoppedIsUnmounted`, `CachedComesUp`,
`ServedOrAbandoned`, `DeletedIsCollected`, `ReachableIsAvailable`, `PodSettles`, `DeletedObjectsGo`,
`ClientsGetThrough`, `ServesInTheEnd`), which is beyond this prover. Every invariant and every safety property that a run checks
is a theorem. `AnswersKept` and `PathIsOwn` are theorems that no run checks: the first follows from
`ImplementsRegistry`, and the second is about what `SameIncarnation` protects.

## 5. Plan and limits

Done: both services, the three reconcilers, the process, an abstract specification each of the controller
service, the node service and the replicas with its refinement, and proofs of every safety property the
runs check. What could follow:

1. `CsiLifecycle`: claim, provisioner, controller and one node composed, so that the context a pod is
   served with is the one its claim had. Each half is modelled; between them travels only the context, unchanged.
2. Two processes that overlap, for the DataNode and DataPod reconcilers as well, where `SameIncarnation` is
   expected to fail.

Not modelled and why:

- The generated clients, encodings and the services nobody implements in `csi.v1.rs`: generated, and
  no state of the system. They are most of that file.
- `crdgen.rs` prints YAML and is no part of the running system; the YAML was read for what survives a
  restart, which socket is where and how pods are replaced.
- The contents of files, Secrets and capacities: no property depends on them.
- A Secret that changes between its review and its second reading (`util/opendal.rs:21`): the review is by name.
- Arguments, a wrong endpoint, a missing kubeconfig: the process ends before it touches anything.
- `FullDataSource.pod` (read, never used when mounting), `DataReplicaSet.template` and the replica set's status
  (never read, never written).
