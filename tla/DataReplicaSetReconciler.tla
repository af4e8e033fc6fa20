---------------------- MODULE DataReplicaSetReconciler ----------------------
(***************************************************************************)
(* The DataReplicaSet reconciler,                                          *)
(* src/src/resource/data_replica_set_controller.rs: for an object that     *)
(* asks for replicas of a source DataPod it creates one DataPod and one    *)
(* claim per replica, a claim for the source, and a pod that copies.       *)
(*                                                                         *)
(* A reconciliation is a sequence of requests to the API server, one await *)
(* each; pc names the request that comes next.  Nothing undoes what an     *)
(* earlier request created when a later one fails.  The reconciler works   *)
(* on the object as the informer showed it when the reconciliation began.  *)
(*                                                                         *)
(* Workers are processes that may run the reconciler: the Deployment       *)
(* replaces its pod by a rolling update and there is no leader election,   *)
(* so that two run side by side for a while.                               *)
(*                                                                         *)
(* External: the API server with its garbage collector, kube-runtime       *)
(* (informer, one reconciliation per object and process, finalizers), the  *)
(* users, and the DataPod reconciler, of which two things matter here: the *)
(* owner reference it adds to a replica, and that it may panic, which ends *)
(* the task that polls all reconcilers of the process.                     *)
(*                                                                         *)
(* The object's status is never written, so that the early return for an   *)
(* object with a status is never taken.  Claims and pods, whose names are  *)
(* random, are told apart by the index that their pass began with: no two  *)
(* passes make the replica of that index, and passes that make no replica  *)
(* are all alike.                                                          *)
(*                                                                         *)
(* All is in one namespace.  The source is looked up there by its name     *)
(* alone, whatever namespace the reference gives.                          *)
(***************************************************************************)
EXTENDS Naturals, FiniteSets

CONSTANTS
    Sets,        \* uids of DataReplicaSets, one per life of the one object
    Nodes,       \* DataNodes of the namespace
    MaxReplicas, \* bound on spec.replicas
    Workers,     \* processes that may run the reconciler
    Others,      \* DataPods of the namespace that are not replicas
    SOURCE,      \* the source among them
    FaultKinds,  \* the faults that may happen, see AllFaults
    ChangeKinds, \* the changes that may happen, see AllChanges
    MaxFaults,   \* bound on the number of faults and changes
    NULL

AllFaults == {"api_error", "restart", "panic"}

AllChanges == {"rollout", "label", "scale", "move", "delete_node", "events"}

Indices == 0 .. MaxReplicas - 1

ASSUME ConstantsAssumption ==
    /\ IsFiniteSet(Sets)
    /\ MaxReplicas \in Nat
    /\ MaxFaults \in Nat
    /\ FaultKinds \subseteq AllFaults
    /\ ChangeKinds \subseteq AllChanges
    /\ IsFiniteSet(Others)
    /\ SOURCE \in Others \ Nat
    /\ NULL \notin Nat \cup Sets \cup Nodes
    /\ NULL \notin [uid : Sets, replicas : 0 .. MaxReplicas, all : BOOLEAN,
                    finalizer : BOOLEAN, deleting : BOOLEAN]
    /\ NULL \notin [node : Nodes, labelled : BOOLEAN, adopted : BOOLEAN]

VARIABLES
    set,      \* the DataReplicaSet, or NULL
    asked,    \* history: asked[s], the most replicas s ever asked for, or NULL
    node,     \* node[n]: "new", "up" or "gone"
    source,   \* first owner of the source DataPod; NULL: no such DataPod, it has
              \* no owner, or the first one is not a DataNode
    other,    \* other[o]: "none", "plain" or "labelled" as the selector asks
    events,   \* the API server takes events
    replica,  \* replica[s][i]: the DataPod "<s>-replica-<i>", or NULL
    claims,   \* the PersistentVolumeClaims
    pods,     \* the pods that copy
    alive,    \* the processes whose reconcilers run
    cache,    \* cache[w]: the DataReplicaSet as w's informer knows it
    pc,       \* pc[w]: the request w is about to make
    self,     \* self[w]: the object w reconciles
    from,     \* from[w]: the DataNode of the source
    free,     \* free[w]: DataNodes that have no replica of this pass yet
    first,    \* first[w]: index that this pass began with
    next,     \* next[w]: index of the next replica
    made,     \* made[w]: replicas of this pass
    faults,   \* number of faults so far
    changes   \* number of changes by users so far, rollouts among them

objects == <<set, asked, node, source, other, events>>
created == <<replica, claims, pods>>
locals == <<pc, self, from, free, first, next, made>>
counters == <<faults, changes>>
vars == <<objects, created, alive, cache, locals, counters>>

-----------------------------------------------------------------------------
(* Data *)

\* all: the selector is empty, so that it finds every DataPod.
ReplicaSet == [uid : Sets, replicas : 0 .. MaxReplicas, all : BOOLEAN,
               finalizer : BOOLEAN, deleting : BOOLEAN]

\* A replica is owned by its set and, once adopted, by its DataNode as well.
Replica == [node : Nodes, labelled : BOOLEAN, adopted : BOOLEAN]

Target == [index : Indices, node : Nodes]

Claim == [set : Sets, of : Indices \cup {SOURCE}, node : Nodes, first : Indices]

Pod == [set : Sets, source : Nodes, targets : SUBSET Target, first : Indices]

Exists(s) == set # NULL /\ set.uid = s

\* The DataPods that the selector of r finds, be they replicas, of whatever set,
\* or others.  Replicas are created without labels.
SelectedReplicas(r) ==
    {k \in Sets \X Indices :
        /\ replica[k[1]][k[2]] # NULL
        /\ r.all \/ replica[k[1]][k[2]].labelled}

SelectedOthers(r) ==
    {o \in Others : other[o] = "labelled" \/ (r.all /\ other[o] = "plain")}

Selected(r) == Cardinality(SelectedReplicas(r)) + Cardinality(SelectedOthers(r))

-----------------------------------------------------------------------------
Init ==
    /\ set = NULL
    /\ asked = [s \in Sets |-> NULL]
    /\ node \in [Nodes -> {"new", "up"}]
    /\ other \in [Others -> {"none", "plain", "labelled"}]
    /\ source \in Nodes \cup {NULL}
    /\ source # NULL => node[source] = "up" /\ other[SOURCE] # "none"
    /\ events = TRUE
    /\ replica = [s \in Sets |-> [i \in Indices |-> NULL]]
    /\ claims = {}
    /\ pods = {}
    /\ \E w \in Workers : alive = {w}
    /\ cache = [w \in Workers |-> NULL]
    /\ pc = [w \in Workers |-> "idle"]
    /\ self = [w \in Workers |-> NULL]
    /\ from = [w \in Workers |-> NULL]
    /\ free = [w \in Workers |-> {}]
    /\ first = [w \in Workers |-> 0]
    /\ next = [w \in Workers |-> 0]
    /\ made = [w \in Workers |-> {}]
    /\ faults = 0
    /\ changes = 0

Fault(kind) ==
    /\ kind \in FaultKinds
    /\ faults + changes < MaxFaults
    /\ faults' = faults + 1
    /\ changes' = changes

Change(kind) ==
    /\ kind \in ChangeKinds
    /\ faults + changes < MaxFaults
    /\ changes' = changes + 1
    /\ faults' = faults

Goto(w, at) == pc' = [pc EXCEPT ![w] = at]

\* The reconciliation ends; it comes again after five minutes or an event.
End(w) ==
    /\ Goto(w, "idle")
    /\ self' = [self EXCEPT ![w] = NULL]
    /\ from' = [from EXCEPT ![w] = NULL]
    /\ free' = [free EXCEPT ![w] = {}]
    /\ first' = [first EXCEPT ![w] = 0]
    /\ next' = [next EXCEPT ![w] = 0]
    /\ made' = [made EXCEPT ![w] = {}]

-----------------------------------------------------------------------------
(* reconcile_drs: the finalizer decides, by what the informer shows *)

AddFinalizer(w) ==
    /\ pc[w] = "idle"
    /\ cache[w] # NULL
    /\ ~cache[w].finalizer
    /\ ~cache[w].deleting
    /\ set # NULL
    /\ ~set.finalizer
    /\ set' = [set EXCEPT !.finalizer = TRUE]
    /\ UNCHANGED <<asked, node, source, other, events, created, alive, cache, locals, counters>>

Reconcile(w) ==
    /\ pc[w] = "idle"
    /\ cache[w] # NULL
    /\ cache[w].finalizer
    /\ ~cache[w].deleting
    /\ self' = [self EXCEPT ![w] = cache[w]]
    /\ Goto(w, "list")
    /\ UNCHANGED <<objects, created, alive, cache, from, free, first, next, made, counters>>

\* Mutation of Cleanup: the event is published, the finalizer stays.
CleanupNothing(w) ==
    /\ pc[w] = "idle"
    /\ cache[w] # NULL
    /\ cache[w].finalizer
    /\ cache[w].deleting
    /\ UNCHANGED vars

\* cleanup publishes an event, without which the finalizer stays, and deletes
\* nothing; the finalizer is taken from whatever object has the name now, and
\* a deleted object goes with it.
Cleanup(w) ==
    /\ pc[w] = "idle"
    /\ cache[w] # NULL
    /\ cache[w].finalizer
    /\ cache[w].deleting
    /\ events
    /\ set # NULL
    /\ set.finalizer
    /\ set' = IF set.deleting THEN NULL ELSE [set EXCEPT !.finalizer = FALSE]
    /\ UNCHANGED <<asked, node, source, other, events, created, alive, cache, locals, counters>>

-----------------------------------------------------------------------------
(* DataReplicaSet::reconcile *)

\* The DataPods are counted; there are enough, or replicas are created from
\* that number on.
ListCounting(w, count) ==
    /\ pc[w] = "list"
    /\ \/ count >= self[w].replicas /\ End(w)
       \/ /\ count < self[w].replicas
          /\ first' = [first EXCEPT ![w] = count]
          /\ next' = [next EXCEPT ![w] = count]
          /\ Goto(w, "source")
          /\ UNCHANGED <<self, from, free, made>>
    /\ UNCHANGED <<objects, created, alive, cache, counters>>

\* Mutation of List: one replica too few is taken for enough.
ListRoughly(w) == ListCounting(w, Selected(self[w]) + 1)

List(w) == ListCounting(w, Selected(self[w]))

\* The source DataPod, whose first owner is taken for its DataNode.
GetSource(w) ==
    /\ pc[w] = "source"
    /\ \/ source = NULL /\ End(w)
       \/ /\ source # NULL
          /\ from' = [from EXCEPT ![w] = source]
          /\ Goto(w, "node")
          /\ UNCHANGED <<self, free, first, next, made>>
    /\ UNCHANGED <<objects, created, alive, cache, counters>>

GetNode(w) ==
    /\ pc[w] = "node"
    /\ \/ node[from[w]] # "up" /\ End(w)
       \/ /\ node[from[w]] = "up"
          /\ Goto(w, "nodes")
          /\ UNCHANGED <<self, from, free, first, next, made>>
    /\ UNCHANGED <<objects, created, alive, cache, counters>>

\* Mutation of ListNodes: the source's DataNode is not left out.
ListAllNodes(w) ==
    /\ pc[w] = "nodes"
    /\ free' = [free EXCEPT ![w] = {n \in Nodes : node[n] = "up"}]
    /\ Goto(w, "replica")
    /\ UNCHANGED <<objects, created, alive, cache, self, from, first, next, made, counters>>

\* The other DataNodes of the namespace.
ListNodes(w) ==
    /\ pc[w] = "nodes"
    /\ free' = [free EXCEPT ![w] = {n \in Nodes : node[n] = "up"} \ {from[w]}]
    /\ Goto(w, "replica")
    /\ UNCHANGED <<objects, created, alive, cache, self, from, first, next, made, counters>>

\* Mutation of MoreReplicas: one more than asked for.
MoreReplicasInclusive(w) ==
    next[w] <= self[w].replicas /\ next[w] \in Indices /\ free[w] # {}

\* The loop goes on: a replica is missing and there is a DataNode for it.
MoreReplicas(w) == next[w] < self[w].replicas /\ free[w] # {}

\* Mutation of CreateDataPod: a DataPod that is there already is used.
CreateDataPodAnyway(w) ==
    /\ pc[w] = "replica"
    /\ MoreReplicas(w)
    /\ \E n \in free[w] :
        /\ replica' = [replica EXCEPT ![self[w].uid][next[w]] =
                         [node |-> n, labelled |-> FALSE, adopted |-> FALSE]]
        /\ free' = [free EXCEPT ![w] = @ \ {n}]
        /\ made' = [made EXCEPT ![w] = @ \cup {[index |-> next[w], node |-> n]}]
    /\ Goto(w, "claim")
    /\ UNCHANGED <<objects, claims, pods, alive, cache, self, from, first, next, counters>>

\* Mutation of CreateDataPod: also when no DataNode is left.
CreateDataPodNowhere(w) ==
    /\ pc[w] = "replica"
    /\ next[w] < self[w].replicas
    /\ replica[self[w].uid][next[w]] = NULL
    /\ \E n \in IF free[w] = {} THEN {NULL} ELSE free[w] :
        /\ replica' = [replica EXCEPT ![self[w].uid][next[w]] =
                         [node |-> n, labelled |-> FALSE, adopted |-> FALSE]]
        /\ free' = [free EXCEPT ![w] = @ \ {n}]
        /\ made' = [made EXCEPT ![w] = @ \cup {[index |-> next[w], node |-> n]}]
    /\ Goto(w, "claim")
    /\ UNCHANGED <<objects, claims, pods, alive, cache, self, from, first, next, counters>>

\* The DataPod of a replica on some free DataNode.
CreateDataPod(w) ==
    /\ pc[w] = "replica"
    /\ MoreReplicas(w)
    /\ replica[self[w].uid][next[w]] = NULL
    /\ \E n \in free[w] :
        /\ replica' = [replica EXCEPT ![self[w].uid][next[w]] =
                         [node |-> n, labelled |-> FALSE, adopted |-> FALSE]]
        /\ free' = [free EXCEPT ![w] = @ \ {n}]
        /\ made' = [made EXCEPT ![w] = @ \cup {[index |-> next[w], node |-> n]}]
    /\ Goto(w, "claim")
    /\ UNCHANGED <<objects, claims, pods, alive, cache, self, from, first, next, counters>>

\* Mutation of AlreadyExists: the claim was made before the DataPod.
ClaimedAlready(w) ==
    /\ pc[w] = "replica"
    /\ MoreReplicas(w)
    /\ replica[self[w].uid][next[w]] # NULL
    /\ \E n \in free[w] :
        claims' = claims \cup {[set |-> self[w].uid, of |-> next[w], node |-> n,
                                first |-> first[w]]}
    /\ End(w)
    /\ UNCHANGED <<objects, replica, pods, alive, cache, counters>>

\* A DataPod of that name exists: the API server refuses another one.
AlreadyExists(w) ==
    /\ pc[w] = "replica"
    /\ MoreReplicas(w)
    /\ replica[self[w].uid][next[w]] # NULL
    /\ End(w)
    /\ UNCHANGED <<objects, created, alive, cache, counters>>

ClaimFor(w, of, n) ==
    [set |-> self[w].uid, of |-> of, node |-> n, first |-> first[w]]

\* Mutation of CreateReplicaClaim: for the first replica of a pass only.
CreateFirstClaim(w) ==
    /\ pc[w] = "claim"
    /\ claims' = IF Cardinality(made[w]) > 1 THEN claims
                 ELSE claims \cup {ClaimFor(w, t.index, t.node) :
                                     t \in {t \in made[w] : t.index = next[w]}}
    /\ next' = [next EXCEPT ![w] = @ + 1]
    /\ Goto(w, "replica")
    /\ UNCHANGED <<objects, replica, pods, alive, cache, self, from, free, first, made,
                   counters>>

\* The claim of the replica just made.
CreateReplicaClaim(w) ==
    /\ pc[w] = "claim"
    /\ claims' = claims \cup {ClaimFor(w, t.index, t.node) :
                                 t \in {t \in made[w] : t.index = next[w]}}
    /\ next' = [next EXCEPT ![w] = @ + 1]
    /\ Goto(w, "replica")
    /\ UNCHANGED <<objects, replica, pods, alive, cache, self, from, free, first, made,
                   counters>>

CreateSourceClaim(w) ==
    /\ pc[w] = "replica"
    /\ ~MoreReplicas(w)
    /\ claims' = claims \cup {ClaimFor(w, SOURCE, from[w])}
    /\ Goto(w, "pod")
    /\ UNCHANGED <<objects, replica, pods, alive, cache, self, from, free, first, next,
                   made, counters>>

\* The pod that copies from the source to the replicas of this pass.
CreateSyncPod(w) ==
    /\ pc[w] = "pod"
    /\ pods' = pods \cup {[set |-> self[w].uid, source |-> from[w],
                           targets |-> made[w], first |-> first[w]]}
    /\ End(w)
    /\ UNCHANGED <<objects, replica, claims, alive, cache, counters>>

\* A request fails, or its answer is lost, or the source has no path when the
\* pod is put together: the reconciliation ends there.
Fail(w) ==
    /\ pc[w] # "idle"
    /\ Fault("api_error")
    /\ End(w)
    /\ UNCHANGED <<objects, created, alive, cache>>

-----------------------------------------------------------------------------
(* The environment *)

\* The informer of w catches up.
Observe(w) ==
    /\ w \in alive
    /\ cache[w] # set
    /\ cache' = [cache EXCEPT ![w] = set]
    /\ UNCHANGED <<objects, created, alive, locals, counters>>

\* The process of w crashes and comes back: it forgets its reconciliation and
\* lists anew.
Restart(w) ==
    /\ w \in alive
    /\ Fault("restart")
    /\ End(w)
    /\ cache' = [cache EXCEPT ![w] = set]
    /\ UNCHANGED <<objects, created, alive>>

\* The DataPod reconciler of the process panics: the task that polls this one
\* as well is gone, and nothing starts it again but a rollout.
Panic(w) ==
    /\ w \in alive
    /\ Fault("panic")
    /\ End(w)
    /\ alive' = alive \ {w}
    /\ cache' = [cache EXCEPT ![w] = NULL]
    /\ UNCHANGED <<objects, created>>

\* A rollout starts a process beside those that run.
Start(w) ==
    /\ w \notin alive
    /\ Change("rollout")
    /\ alive' = alive \cup {w}
    /\ cache' = [cache EXCEPT ![w] = set]
    /\ UNCHANGED <<objects, created, locals>>

\* A process stops between two reconciliations; another one goes on.
Stop(w) ==
    /\ w \in alive
    /\ alive # {w}
    /\ pc[w] = "idle"
    /\ alive' = alive \ {w}
    /\ cache' = [cache EXCEPT ![w] = NULL]
    /\ UNCHANGED <<objects, created, locals, counters>>

Create(s, replicas, all) ==
    /\ set = NULL
    /\ asked[s] = NULL
    /\ set' = [uid |-> s, replicas |-> replicas, all |-> all,
                finalizer |-> FALSE, deleting |-> FALSE]
    /\ asked' = [asked EXCEPT ![s] = replicas]
    /\ UNCHANGED <<node, source, other, events, created, alive, cache, locals, counters>>

\* A user deletes the object: it stays as long as it has the finalizer.
Delete ==
    /\ set # NULL
    /\ ~set.deleting
    /\ set' = IF set.finalizer THEN [set EXCEPT !.deleting = TRUE] ELSE NULL
    /\ UNCHANGED <<asked, node, source, other, events, created, alive, cache, locals, counters>>

Scale(replicas) ==
    /\ set # NULL
    /\ Change("scale")
    /\ set' = [set EXCEPT !.replicas = replicas]
    /\ asked' = [asked EXCEPT ![set.uid] = IF @ < replicas THEN replicas ELSE @]
    /\ UNCHANGED <<node, source, other, events, created, alive, cache, locals>>

\* A user gives a replica the labels of the selector.
Label(s, i) ==
    /\ replica[s][i] # NULL
    /\ ~replica[s][i].labelled
    /\ Change("label")
    /\ replica' = [replica EXCEPT ![s][i].labelled = TRUE]
    /\ UNCHANGED <<objects, claims, pods, alive, cache, locals>>

\* A user creates another DataPod, changes its labels or deletes it.
Mark(o, as) ==
    /\ other[o] # as
    /\ \/ other[o] = "none" /\ UNCHANGED counters
       \/ other[o] # "none" /\ Change("label")
    /\ other' = [other EXCEPT ![o] = as]
    /\ source' = IF o = SOURCE /\ as = "none" THEN NULL ELSE source
    /\ UNCHANGED <<set, asked, node, events, created, alive, cache, locals>>

\* The API server begins to refuse events, as it does when the permission is
\* taken away, or takes them again.
EventsChange ==
    /\ Change("events")
    /\ events' = ~events
    /\ UNCHANGED <<set, asked, node, source, other, created, alive, cache, locals>>

AddNode(n) ==
    /\ node[n] = "new"
    /\ node' = [node EXCEPT ![n] = "up"]
    /\ UNCHANGED <<set, asked, source, other, events, created, alive, cache, locals, counters>>

RemoveNode(n) ==
    /\ node[n] = "up"
    /\ Change("delete_node")
    /\ node' = [node EXCEPT ![n] = "gone"]
    /\ UNCHANGED <<set, asked, source, other, events, created, alive, cache, locals>>

\* The DataPod reconciler gives the source its DataNode as owner, and gives it
\* another when a user refers to another.
OwnSource(n) ==
    /\ node[n] = "up"
    /\ other[SOURCE] # "none"
    /\ source # n
    /\ \/ source = NULL /\ UNCHANGED counters
       \/ source # NULL /\ Change("move")
    /\ source' = n
    /\ UNCHANGED <<set, asked, node, other, events, created, alive, cache, locals>>

\* The DataPod reconciler adds its DataNode to the owners of a replica.
Adopt(s, i) ==
    /\ replica[s][i] # NULL
    /\ ~replica[s][i].adopted
    /\ node[replica[s][i].node] = "up"
    /\ replica' = [replica EXCEPT ![s][i].adopted = TRUE]
    /\ UNCHANGED <<objects, claims, pods, alive, cache, locals, counters>>

\* A replica is collected when none of its owners exists.
Collectable(s, i) ==
    /\ replica[s][i] # NULL
    /\ ~Exists(s)
    /\ replica[s][i].adopted => node[replica[s][i].node] # "up"

Clean(s) ==
    /\ \A i \in Indices : ~Collectable(s, i)
    /\ \A c \in claims : c.set # s
    /\ \A y \in pods : y.set # s

\* The garbage collector removes what only s owned.
Collect(s) ==
    /\ ~Exists(s)
    /\ ~Clean(s)
    /\ replica' = [replica EXCEPT ![s] = [i \in Indices |->
                     IF Collectable(s, i) THEN NULL ELSE replica[s][i]]]
    /\ claims' = {c \in claims : c.set # s}
    /\ pods' = {y \in pods : y.set # s}
    /\ UNCHANGED <<objects, alive, cache, locals, counters>>

-----------------------------------------------------------------------------
Work(w) ==
    \/ AddFinalizer(w) \/ Reconcile(w) \/ Cleanup(w)
    \/ List(w) \/ GetSource(w) \/ GetNode(w) \/ ListNodes(w)
    \/ CreateDataPod(w) \/ AlreadyExists(w) \/ CreateReplicaClaim(w)
    \/ CreateSourceClaim(w) \/ CreateSyncPod(w)

User ==
    \/ \E s \in Sets, k \in 0 .. MaxReplicas, all \in BOOLEAN : Create(s, k, all)
    \/ Delete
    \/ \E k \in 0 .. MaxReplicas : Scale(k)
    \/ \E s \in Sets, i \in Indices : Label(s, i)
    \/ \E o \in Others, as \in {"none", "plain", "labelled"} : Mark(o, as)
    \/ EventsChange
    \/ \E n \in Nodes : AddNode(n) \/ RemoveNode(n)

Cluster ==
    \/ \E n \in Nodes : OwnSource(n)
    \/ \E s \in Sets, i \in Indices : Adopt(s, i)
    \/ \E s \in Sets : Collect(s)

Next ==
    \/ \E w \in Workers :
        \/ Work(w) \/ Fail(w)
        \/ Observe(w) \/ Restart(w) \/ Panic(w) \/ Start(w) \/ Stop(w)
    \/ User
    \/ Cluster

Spec == Init /\ [][Next]_vars

\* The reconciliations of the processes that are alive go on and come again,
\* their informers catch up and the garbage collector collects.  Nothing is
\* assumed of users and of faults, nor that a panic is ever noticed.
Fairness ==
    /\ \A w \in Workers : WF_vars(Work(w)) /\ WF_vars(Observe(w))
    /\ \A s \in Sets : WF_vars(Collect(s))

FairSpec == Spec /\ Fairness

-----------------------------------------------------------------------------
(* Properties *)

Steps == {"list", "source", "node", "nodes", "replica", "claim", "pod"}

ObjectsTyped ==
    /\ set \in ReplicaSet \cup {NULL}
    /\ asked \in [Sets -> 0 .. MaxReplicas \cup {NULL}]
    /\ node \in [Nodes -> {"new", "up", "gone"}]
    /\ source \in Nodes \cup {NULL}
    /\ other \in [Others -> {"none", "plain", "labelled"}]
    /\ events \in BOOLEAN
    /\ replica \in [Sets -> [Indices -> Replica \cup {NULL}]]
    /\ claims \subseteq Claim
    /\ pods \subseteq Pod

WorkersTyped ==
    /\ alive \in SUBSET Workers
    /\ cache \in [Workers -> ReplicaSet \cup {NULL}]
    /\ pc \in [Workers -> Steps \cup {"idle"}]
    /\ self \in [Workers -> ReplicaSet \cup {NULL}]
    /\ from \in [Workers -> Nodes \cup {NULL}]
    /\ free \in [Workers -> SUBSET Nodes]
    /\ first \in [Workers -> 0 .. MaxReplicas]
    /\ next \in [Workers -> 0 .. MaxReplicas]
    /\ made \in [Workers -> SUBSET Target]

\* Every variable holds what its declaration says.
TypeOK ==
    /\ ObjectsTyped
    /\ WorkersTyped
    /\ faults \in 0 .. MaxFaults
    /\ changes \in 0 .. MaxFaults

\* Replicas never exceed what the set asked for at some time, whatever
\* reconciliations of several processes overlap, fail or see an old object.
ReplicasAsAsked ==
    \A s \in Sets, i \in Indices :
        replica[s][i] # NULL => asked[s] # NULL /\ i < asked[s]

\* While the set exists no two pods copy to the same replica, although passes
\* overlap and are repeated: the fixed names of the replicas see to it.
OneWriterPerReplica ==
    \A y, z \in pods :
        y.set = z.set /\ Exists(y.set) /\ y # z =>
            \A t \in y.targets, u \in z.targets : t.index # u.index

\* A pod copies to replicas on DataNodes of their own, none on the DataNode it
\* copies from.
SyncPodsSpread ==
    \A y \in pods :
        /\ \A t \in y.targets : t.node # y.source
        /\ \A t, u \in y.targets : t.node = u.node <=> t.index = u.index

\* While the set exists a pod has the claims it mounts: one for the source and
\* one for each replica, on the DataNode of that replica.
SyncPodHasItsClaims ==
    \A y \in pods : Exists(y.set) =>
        /\ [set |-> y.set, of |-> SOURCE, node |-> y.source, first |-> y.first] \in claims
        /\ \A t \in y.targets :
            [set |-> y.set, of |-> t.index, node |-> t.node, first |-> y.first] \in claims

Mounts(y, c) ==
    /\ y.set = c.set
    /\ y.first = c.first
    /\ \/ c.of = SOURCE /\ y.source = c.node
       \/ \E t \in y.targets : t.index = c.of /\ t.node = c.node

\* A claim of a set that exists is left without a pod that mounts it only if
\* a request failed or a process ended, or if passes counted the DataPods
\* differently: passes that begin with the same index leave nothing behind,
\* however often, in however many processes and with however old an object
\* they ran, whatever users did meanwhile.
LeakHasACause ==
    faults = 0 /\ (\A w \in Workers : pc[w] = "idle") =>
        \A c \in claims :
            \/ ~Exists(c.set)
            \/ \E d \in claims : d.set = c.set /\ d.first # c.first
            \/ \E y \in pods : Mounts(y, c)

\* Some replica has no pod that copies to it and no pass that would make one.
Abandoned(s) ==
    \E i \in Indices :
        /\ replica[s][i] # NULL
        /\ \A y \in pods : y.set = s => \A t \in y.targets : t.index # i
        /\ \A w \in Workers :
            self[w] # NULL /\ self[w].uid = s => \A t \in made[w] : t.index # i

\* The set can be served: it asks for more replicas than the selector finds
\* DataPods, whatever these are, the source and its DataNode are there, and
\* another DataNode, and some reconciler runs.
Servable(s) ==
    /\ Exists(s)
    /\ ~set.deleting
    /\ Selected(set) < set.replicas
    /\ source # NULL
    /\ node[source] = "up"
    /\ \E n \in Nodes \ {source} : node[n] = "up"
    /\ alive # {}

Served(s) == \E y \in pods : y.set = s /\ y.targets # {}

\* A set that can be served is served, or else a pass broke off between its
\* first replica and its pod; later passes then fail on the name that is
\* taken.
ServedOrAbandoned ==
    \A s \in Sets : <>[]Servable(s) => <>(Served(s) \/ Abandoned(s))

Deleted(s) == asked[s] # NULL /\ (Exists(s) => set.deleting)

\* When a set was deleted, its claims and pods go, and its replicas as well,
\* except those that their DataNode owns by then: these stay as long as the
\* DataNode does.  This takes a reconciler that runs, which a panic of another
\* one may end for good, and an API server that takes the event of cleanup.
DeletedIsCollected ==
    <>[](alive # {} /\ events) =>
        \A s \in Sets : [](Deleted(s) => <>[](~Exists(s) /\ Clean(s)))

\* What the live set has: its replicas, those that passes made and have no pod
\* for yet, and those that pods copy to.
Taken == {i \in Indices : set # NULL /\ replica[set.uid][i] # NULL}
Held(w) == {t.index : t \in {t \in made[w] : self[w] # NULL /\ Exists(self[w].uid)}}
Targeted == {i \in Indices : \E y \in pods : Exists(y.set) /\ \E t \in y.targets : t.index = i}

\* The names are taken, served and dropped as ReplicaNames has it.
Names == INSTANCE ReplicaNames WITH
    live <- IF set = NULL THEN NULL ELSE set.uid,
    past <- {s \in Sets : asked[s] # NULL},
    taken <- Taken, held <- [w \in Workers |-> Held(w)], served <- Targeted

ImplementsNames == Names!Spec

=============================================================================
