------------------------- MODULE DataNodeReconciler -------------------------
(***************************************************************************)
(* The DataNode reconciler, src/src/resource/data_node_controller.rs:      *)
(* checks the data source of an object once and writes the result to its   *)
(* status; a finalizer keeps a deleted object until cleanup has run.       *)
(*                                                                         *)
(* All objects are in one namespace.  An object is known by its name, and  *)
(* lives under a uid: it may be deleted and created again.  No request of  *)
(* the reconciler carries the uid.                                         *)
(*                                                                         *)
(* External: the API server, the users, the data sources, and kube-runtime *)
(* (an informer per kind, one reconciliation per name at a time, the       *)
(* finalizer's patches).  All reconcilers are polled by one task, see run  *)
(* in src/src/resource/controller.rs: running is whether it goes on.       *)
(***************************************************************************)
EXTENDS Naturals

CONSTANTS
    Nodes,      \* names of DataNodes
    Labelled,   \* those that the selector finds
    MaxUid,     \* bound on the objects that ever live
    FaultKinds, \* the faults that may happen, see AllFaults
    MaxFaults,  \* bound on the number of faults
    NULL

AllFaults == {"api_error", "restart", "delete", "edit", "source", "terminate"}

Uids == 1 .. MaxUid

ASSUME ConstantsAssumption ==
    /\ Labelled \subseteq Nodes
    /\ MaxUid \in Nat
    /\ MaxFaults \in Nat
    /\ FaultKinds \subseteq AllFaults
    /\ NULL \notin Nat \cup Nodes
    /\ NULL \notin [uid : Uids, available : BOOLEAN,
                    finalizer : BOOLEAN, deleting : BOOLEAN]

VARIABLES
    node,    \* node[n]: the DataNode named n, or NULL
    up,      \* up[n]: whether the source and the Secret of n can be used
    nCache,  \* nCache[n]: the DataNode as the informer shows it
    nPc,     \* nPc[n]: what the reconciliation of n does next
    nSelf,   \* nSelf[n]: the uid of the object that is reconciled
    checked, \* history: uids whose source was checked
    uids,    \* uids given so far
    running, \* the task that polls the reconcilers goes on
    open,    \* the namespace is not being terminated
    faults   \* number of faults so far

nodeLocals == <<nPc, nSelf>>
shared == <<uids, running, open, faults>>
nodeVars == <<node, up, nCache, nodeLocals, checked>>

DataNode == [uid : Uids, available : BOOLEAN,
             finalizer : BOOLEAN, deleting : BOOLEAN]

-----------------------------------------------------------------------------
NodeInit ==
    /\ node = [n \in Nodes |-> NULL]
    /\ up \in [Nodes -> BOOLEAN]
    /\ nCache = [n \in Nodes |-> NULL]
    /\ nPc = [n \in Nodes |-> "idle"]
    /\ nSelf = [n \in Nodes |-> NULL]
    /\ checked = {}

SharedInit ==
    /\ uids = 0
    /\ running = TRUE
    /\ open = TRUE
    /\ faults = 0

Fault(kind) ==
    /\ kind \in FaultKinds
    /\ faults < MaxFaults
    /\ faults' = faults + 1

\* The next uid is given.
NewUid ==
    /\ open
    /\ uids < MaxUid
    /\ uids' = uids + 1

NodeEnd(n) ==
    /\ nPc' = [nPc EXCEPT ![n] = "idle"]
    /\ nSelf' = [nSelf EXCEPT ![n] = NULL]

-----------------------------------------------------------------------------
(* reconcile_dn: the finalizer decides, by what the informer shows *)

AddNodeFinalizer(n) ==
    /\ running
    /\ nPc[n] = "idle"
    /\ nCache[n] # NULL
    /\ ~nCache[n].finalizer
    /\ ~nCache[n].deleting
    /\ node[n] # NULL
    /\ ~node[n].finalizer
    /\ node' = [node EXCEPT ![n].finalizer = TRUE]
    /\ UNCHANGED <<up, nCache, nodeLocals, checked, shared>>

\* Mutation of ReconcileNode: without waiting for the finalizer.
ReconcileNodeEarly(n) ==
    /\ running
    /\ nPc[n] = "idle"
    /\ nCache[n] # NULL
    /\ ~nCache[n].deleting
    /\ ~nCache[n].available
    /\ nSelf' = [nSelf EXCEPT ![n] = nCache[n].uid]
    /\ nPc' = [nPc EXCEPT ![n] = "check"]
    /\ UNCHANGED <<node, up, nCache, checked, shared>>

\* An object that has a status is left alone for good.
ReconcileNode(n) ==
    /\ running
    /\ nPc[n] = "idle"
    /\ nCache[n] # NULL
    /\ nCache[n].finalizer
    /\ ~nCache[n].deleting
    /\ ~nCache[n].available
    /\ nSelf' = [nSelf EXCEPT ![n] = nCache[n].uid]
    /\ nPc' = [nPc EXCEPT ![n] = "check"]
    /\ UNCHANGED <<node, up, nCache, checked, shared>>

\* Mutation of CheckSource: a failure of the check is passed over.
CheckSourceLoosely(n) ==
    /\ running
    /\ nPc[n] = "check"
    /\ nPc' = [nPc EXCEPT ![n] = "status"]
    /\ checked' = IF up[n] THEN checked \cup {nSelf[n]} ELSE checked
    /\ UNCHANGED <<node, up, nCache, nSelf, shared>>

\* get_operator reads the Secret, then the source is asked.
CheckSource(n) ==
    /\ running
    /\ nPc[n] = "check"
    /\ up[n]
    /\ nPc' = [nPc EXCEPT ![n] = "status"]
    /\ checked' = checked \cup {nSelf[n]}
    /\ UNCHANGED <<node, up, nCache, nSelf, shared>>

CheckFails(n) ==
    /\ running
    /\ nPc[n] = "check"
    /\ ~up[n]
    /\ NodeEnd(n)
    /\ UNCHANGED <<node, up, nCache, checked, shared>>

\* Mutation of PatchStatus: the status says that it is not available.
PatchStatusOff(n) ==
    /\ running
    /\ nPc[n] = "status"
    /\ node[n] # NULL
    /\ node' = [node EXCEPT ![n].available = FALSE]
    /\ NodeEnd(n)
    /\ UNCHANGED <<up, nCache, checked, shared>>

\* The status is applied to whatever object has the name; the event that
\* follows changes nothing, nor does its failure.
PatchStatus(n) ==
    /\ running
    /\ nPc[n] = "status"
    /\ node[n] # NULL
    /\ node' = [node EXCEPT ![n].available = TRUE]
    /\ NodeEnd(n)
    /\ UNCHANGED <<up, nCache, checked, shared>>

NodeFails(n) ==
    /\ running
    /\ nPc[n] # "idle"
    /\ Fault("api_error")
    /\ NodeEnd(n)
    /\ UNCHANGED <<node, up, nCache, checked, uids, running, open>>

\* Mutation of CleanupNode: an error after the event, the finalizer stays.
CleanupNodeFails(n) ==
    /\ running
    /\ nPc[n] = "idle"
    /\ nCache[n] # NULL
    /\ nCache[n].finalizer
    /\ nCache[n].deleting
    /\ open
    /\ UNCHANGED <<nodeVars, shared>>

\* cleanup publishes an event, which is refused in a namespace that is being
\* terminated; then the finalizer is taken from whatever object has the name.
CleanupNode(n) ==
    /\ running
    /\ nPc[n] = "idle"
    /\ nCache[n] # NULL
    /\ nCache[n].finalizer
    /\ nCache[n].deleting
    /\ open
    /\ node[n] # NULL
    /\ node[n].finalizer
    /\ node' = IF node[n].deleting THEN [node EXCEPT ![n] = NULL]
               ELSE [node EXCEPT ![n].finalizer = FALSE]
    /\ UNCHANGED <<up, nCache, nodeLocals, checked, shared>>

-----------------------------------------------------------------------------
(* The environment *)

ObserveNode(n) ==
    /\ running
    /\ nCache[n] # node[n]
    /\ nCache' = [nCache EXCEPT ![n] = node[n]]
    /\ UNCHANGED <<node, up, nodeLocals, checked, shared>>

CreateNode(n) ==
    /\ node[n] = NULL
    /\ NewUid
    /\ node' = [node EXCEPT ![n] = [uid |-> uids', available |-> FALSE,
                                  finalizer |-> FALSE, deleting |-> FALSE]]
    /\ UNCHANGED <<up, nCache, nodeLocals, checked, running, open, faults>>

\* A deleted object stays as long as it has a finalizer.
Deleted(object) == IF object.finalizer THEN [object EXCEPT !.deleting = TRUE] ELSE NULL

DeleteNode(n) ==
    /\ node[n] # NULL
    /\ ~node[n].deleting
    /\ Fault("delete")
    /\ node' = [node EXCEPT ![n] = Deleted(node[n])]
    /\ UNCHANGED <<up, nCache, nodeLocals, checked, uids, running, open>>

\* The source of n, or the Secret for it, comes or goes.
SourceChanges(n) ==
    /\ Fault("source")
    /\ up' = [up EXCEPT ![n] = ~@]
    /\ UNCHANGED <<node, nCache, nodeLocals, checked, uids, running, open>>

-----------------------------------------------------------------------------
NodeWork(n) ==
    \/ AddNodeFinalizer(n) \/ ReconcileNode(n) \/ CheckSource(n) \/ CheckFails(n)
    \/ PatchStatus(n) \/ CleanupNode(n)

NodeNext ==
    \E n \in Nodes :
        \/ NodeWork(n) \/ NodeFails(n) \/ ObserveNode(n)
        \/ CreateNode(n) \/ DeleteNode(n) \/ SourceChanges(n)

-----------------------------------------------------------------------------
(* Properties *)

NodesTyped ==
    /\ node \in [Nodes -> DataNode \cup {NULL}]
    /\ up \in [Nodes -> BOOLEAN]
    /\ nCache \in [Nodes -> DataNode \cup {NULL}]
    /\ nPc \in [Nodes -> {"idle", "check", "status"}]
    /\ nSelf \in [Nodes -> Uids \cup {NULL}]
    /\ checked \subseteq Uids

SharedTyped ==
    /\ uids \in 0 .. MaxUid
    /\ running \in BOOLEAN
    /\ open \in BOOLEAN
    /\ faults \in 0 .. MaxFaults

\* A DataNode is available only if its own source was checked, not that of an
\* object that had the name before, although the status is applied by name.
AvailableWasChecked ==
    \A n \in Nodes : node[n] # NULL /\ node[n].available => node[n].uid \in checked

\* A DataNode whose source can be used for good is available in the end, or
\* the reconcilers have stopped.
ReachableIsAvailable ==
    \A n \in Nodes :
        <>[](node[n] # NULL /\ ~node[n].deleting /\ up[n] /\ running)
            => <>[](node[n] # NULL /\ node[n].available)

=============================================================================
