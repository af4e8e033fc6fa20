------------------------- MODULE DataPodReconciler --------------------------
(***************************************************************************)
(* The DataPod reconciler, src/src/resource/data_pod_controller.rs, next   *)
(* to the DataNode reconciler with which it shares a task: it finds the    *)
(* DataNode of a DataPod, by reference or by selector, makes it the owner  *)
(* and gives the DataPod a path of its own where the user gave none.       *)
(*                                                                         *)
(* The patch is a forced server-side apply.  It takes path and reference   *)
(* from the object as the informer showed it when the reconciliation began *)
(* and the selector from a copy fetched then; a user's edit made since is  *)
(* overwritten.  The status that goes with the patch is ignored by the API *)
(* server, as the resource has a status subresource.                       *)
(*                                                                         *)
(* A get that finds no object would end the reconciliation, and an apply   *)
(* would create it; SameIncarnation says that neither happens.             *)
(*                                                                         *)
(* All is in one namespace, that of the DataPod.  The DataNode is got from *)
(* there by the name in the reference alone: a namespace that dataNodeRef  *)
(* gives is not read, whatever src/src/resource/crd.rs says of it.         *)
(*                                                                         *)
(* External: the users, and the garbage collector, which deletes a DataPod *)
(* when the DataNode that owns it, known by its uid, is gone.              *)
(***************************************************************************)
EXTENDS DataNodeReconciler

CONSTANTS
    Pods,  \* names of DataPods
    Paths, \* paths that users give
    Specs  \* what users write: path, reference and selector, each or none

ASSUME PodsAssumption ==
    /\ Specs \subseteq [path : Paths \cup {NULL}, ref : Nodes \cup {NULL}, selector : BOOLEAN]
    /\ Paths \cap Uids = {}
    /\ NULL \notin Paths
    /\ NULL \notin [uid : Uids, path : Paths \cup Uids \cup {NULL}, ref : Nodes \cup {NULL},
                    selector : BOOLEAN, owner : Uids \cup {NULL},
                    finalizer : BOOLEAN, deleting : BOOLEAN]

VARIABLES
    pod,     \* pod[p]: the DataPod named p, or NULL
    pCache,  \* pCache[p]: the DataPod as the informer shows it
    pPc,     \* pPc[p]: what the reconciliation of p does next
    pSelf,   \* pSelf[p]: what is read of the object that is reconciled
    fetched, \* fetched[p]: the selector of the copy fetched after it began
    target   \* target[p]: the DataNode that was found

podLocals == <<pPc, pSelf, fetched, target>>
podVars == <<pod, pCache, podLocals>>
vars == <<nodeVars, podVars, shared>>

\* A generated path is the uid it is made of; a path that is missing, empty
\* or "/" is NULL.
DataPod == [uid : Uids, path : Paths \cup Uids \cup {NULL}, ref : Nodes \cup {NULL},
            selector : BOOLEAN, owner : Uids \cup {NULL},
            finalizer : BOOLEAN, deleting : BOOLEAN]

\* What a reconciliation reads of its object.
ViewOfPod == [uid : Uids, path : Paths \cup Uids \cup {NULL}, ref : Nodes \cup {NULL},
              selector : BOOLEAN]

View(obj) == [uid |-> obj.uid, path |-> obj.path, ref |-> obj.ref, selector |-> obj.selector]

Target == [name : Nodes, uid : Uids]

-----------------------------------------------------------------------------
PodInit ==
    /\ pod = [p \in Pods |-> NULL]
    /\ pCache = [p \in Pods |-> NULL]
    /\ pPc = [p \in Pods |-> "idle"]
    /\ pSelf = [p \in Pods |-> NULL]
    /\ fetched = [p \in Pods |-> NULL]
    /\ target = [p \in Pods |-> NULL]

Init == NodeInit /\ PodInit /\ SharedInit

PodEnd(p) ==
    /\ pPc' = [pPc EXCEPT ![p] = "idle"]
    /\ pSelf' = [pSelf EXCEPT ![p] = NULL]
    /\ fetched' = [fetched EXCEPT ![p] = NULL]
    /\ target' = [target EXCEPT ![p] = NULL]

-----------------------------------------------------------------------------
(* reconcile_dp: the finalizer decides, by what the informer shows *)

AddPodFinalizer(p) ==
    /\ running
    /\ pPc[p] = "idle"
    /\ pCache[p] # NULL
    /\ ~pCache[p].finalizer
    /\ ~pCache[p].deleting
    /\ pod[p] # NULL
    /\ ~pod[p].finalizer
    /\ pod' = [pod EXCEPT ![p].finalizer = TRUE]
    /\ UNCHANGED <<nodeVars, pCache, podLocals, shared>>

ReconcilePod(p) ==
    /\ running
    /\ pPc[p] = "idle"
    /\ pCache[p] # NULL
    /\ pCache[p].finalizer
    /\ ~pCache[p].deleting
    /\ pSelf' = [pSelf EXCEPT ![p] = View(pCache[p])]
    /\ pPc' = [pPc EXCEPT ![p] = "get"]
    /\ UNCHANGED <<nodeVars, pod, pCache, fetched, target, shared>>

\* cleanup: as for a DataNode.
CleanupPod(p) ==
    /\ running
    /\ pPc[p] = "idle"
    /\ pCache[p] # NULL
    /\ pCache[p].finalizer
    /\ pCache[p].deleting
    /\ open
    /\ pod[p] # NULL
    /\ pod[p].finalizer
    /\ pod' = IF pod[p].deleting THEN [pod EXCEPT ![p] = NULL]
              ELSE [pod EXCEPT ![p].finalizer = FALSE]
    /\ UNCHANGED <<nodeVars, pCache, podLocals, shared>>

-----------------------------------------------------------------------------
(* DataPod::reconcile *)

GetPod(p) ==
    /\ running
    /\ pPc[p] = "get"
    /\ pod[p] # NULL
    /\ fetched' = [fetched EXCEPT ![p] = pod[p].selector]
    /\ pPc' = [pPc EXCEPT ![p] = "node"]
    /\ UNCHANGED <<nodeVars, pod, pCache, pSelf, target, shared>>

Found(p, n) ==
    /\ node[n] # NULL
    /\ target' = [target EXCEPT ![p] = [name |-> n, uid |-> node[n].uid]]
    /\ pPc' = [pPc EXCEPT ![p] = "patch"]
    /\ UNCHANGED <<nodeVars, pod, pCache, pSelf, fetched, shared>>

\* The DataNode that the reference names.
FindByRef(p) ==
    /\ running
    /\ pPc[p] = "node"
    /\ pSelf[p].ref # NULL
    /\ Found(p, pSelf[p].ref)

\* Mutation of FindBySelector: the selector comes before the reference.
FindBySelectorFirst(p) ==
    /\ running
    /\ pPc[p] = "node"
    /\ pSelf[p].selector
    /\ \E n \in Labelled : Found(p, n)

\* Without a reference, the first DataNode that the selector finds.
FindBySelector(p) ==
    /\ running
    /\ pPc[p] = "node"
    /\ pSelf[p].ref = NULL
    /\ pSelf[p].selector
    /\ \E n \in Labelled : Found(p, n)

\* The reference names no DataNode, or there is neither reference nor selector.
FindFails(p) ==
    /\ running
    /\ pPc[p] = "node"
    /\ \/ pSelf[p].ref # NULL /\ node[pSelf[p].ref] = NULL
       \/ pSelf[p].ref = NULL /\ ~pSelf[p].selector
    /\ PodEnd(p)
    /\ UNCHANGED <<nodeVars, pod, pCache, shared>>

\* The selector finds nothing: the reconciler panics, and with it the task
\* that polls all reconcilers ends.  The process goes on.
Panic(p) ==
    /\ running
    /\ pPc[p] = "node"
    /\ pSelf[p].ref = NULL
    /\ pSelf[p].selector
    /\ \A n \in Labelled : node[n] = NULL
    /\ running' = FALSE
    /\ UNCHANGED <<nodeVars, podVars, uids, open, faults>>

\* Mutation of NewPath: made of the DataNode's name.
NewPathOfNode(self) == IF self.path = NULL THEN self.ref ELSE self.path

\* The path that is applied: the user's, or one made of the object's uid.
NewPath(self) == IF self.path = NULL THEN self.uid ELSE self.path

\* Mutation of Applied: an owner that is there is kept.
AppliedBesideOwner(p, obj) ==
    [obj EXCEPT !.path = NewPath(pSelf[p]),
                !.ref = target[p].name,
                !.owner = IF @ = NULL THEN target[p].uid ELSE @,
                !.selector = @ \/ fetched[p]]

\* Applied over obj by force.  A selector that is not applied stays.
Applied(p, obj) ==
    [obj EXCEPT !.path = NewPath(pSelf[p]),
                !.ref = target[p].name,
                !.owner = target[p].uid,
                !.selector = @ \/ fetched[p]]

\* The event that follows changes nothing, nor does its failure.
PatchPod(p) ==
    /\ running
    /\ pPc[p] = "patch"
    /\ pod[p] # NULL
    /\ pod' = [pod EXCEPT ![p] = Applied(p, pod[p])]
    /\ PodEnd(p)
    /\ UNCHANGED <<nodeVars, pCache, shared>>

PodFails(p) ==
    /\ running
    /\ pPc[p] # "idle"
    /\ Fault("api_error")
    /\ PodEnd(p)
    /\ UNCHANGED <<nodeVars, pod, pCache, uids, running, open>>

-----------------------------------------------------------------------------
(* The environment *)

ObservePod(p) ==
    /\ running
    /\ pCache[p] # pod[p]
    /\ pCache' = [pCache EXCEPT ![p] = pod[p]]
    /\ UNCHANGED <<nodeVars, pod, podLocals, shared>>

CreatePod(p, spec) ==
    /\ pod[p] = NULL
    /\ NewUid
    /\ pod' = [pod EXCEPT ![p] = [uid |-> uids', path |-> spec.path, ref |-> spec.ref,
                                selector |-> spec.selector, owner |-> NULL,
                                finalizer |-> FALSE, deleting |-> FALSE]]
    /\ UNCHANGED <<nodeVars, pCache, podLocals, running, open, faults>>

DeletePod(p) ==
    /\ pod[p] # NULL
    /\ ~pod[p].deleting
    /\ Fault("delete")
    /\ pod' = [pod EXCEPT ![p] = Deleted(pod[p])]
    /\ UNCHANGED <<nodeVars, pCache, podLocals, uids, running, open>>

\* A user writes the fields anew.
EditPod(p, spec) ==
    /\ pod[p] # NULL
    /\ Fault("edit")
    /\ pod' = [pod EXCEPT ![p].path = spec.path, ![p].ref = spec.ref,
                         ![p].selector = spec.selector]
    /\ UNCHANGED <<nodeVars, pCache, podLocals, uids, running, open>>

\* The DataNode that owns p is gone.
Orphan(p) ==
    /\ pod[p] # NULL
    /\ pod[p].owner # NULL
    /\ \A n \in Nodes : node[n] # NULL => node[n].uid # pod[p].owner

Collect(p) ==
    /\ Orphan(p)
    /\ ~pod[p].deleting
    /\ pod' = [pod EXCEPT ![p] = Deleted(pod[p])]
    /\ UNCHANGED <<nodeVars, pCache, podLocals, shared>>

\* The namespace is deleted, and all that is in it.
Terminate ==
    /\ open
    /\ Fault("terminate")
    /\ open' = FALSE
    /\ node' = [n \in Nodes |-> IF node[n] = NULL THEN NULL ELSE Deleted(node[n])]
    /\ pod' = [p \in Pods |-> IF pod[p] = NULL THEN NULL ELSE Deleted(pod[p])]
    /\ UNCHANGED <<up, nCache, nodeLocals, checked, pCache, podLocals, uids, running>>

\* The process restarts: reconciliations are forgotten and objects listed anew.
Restart ==
    /\ Fault("restart")
    /\ running' = TRUE
    /\ nPc' = [n \in Nodes |-> "idle"]
    /\ nSelf' = [n \in Nodes |-> NULL]
    /\ nCache' = node
    /\ pPc' = [p \in Pods |-> "idle"]
    /\ pSelf' = [p \in Pods |-> NULL]
    /\ fetched' = [p \in Pods |-> NULL]
    /\ target' = [p \in Pods |-> NULL]
    /\ pCache' = pod
    /\ UNCHANGED <<node, up, checked, pod, uids, open>>

-----------------------------------------------------------------------------
PodWork(p) ==
    \/ AddPodFinalizer(p) \/ ReconcilePod(p) \/ CleanupPod(p)
    \/ GetPod(p) \/ FindByRef(p) \/ FindBySelector(p) \/ FindFails(p) \/ Panic(p)
    \/ PatchPod(p)

PodUser(p) ==
    \/ \E spec \in Specs : CreatePod(p, spec) \/ EditPod(p, spec)
    \/ DeletePod(p)

PodNext ==
    \E p \in Pods : PodWork(p) \/ PodFails(p) \/ ObservePod(p) \/ PodUser(p) \/ Collect(p)

Next ==
    \/ NodeNext /\ UNCHANGED podVars
    \/ PodNext
    \/ Terminate
    \/ Restart

Spec == Init /\ [][Next]_vars

\* The task polls every reconciler again and again, informers catch up and the
\* garbage collector collects.  Nothing is assumed of users, sources and faults.
Fairness ==
    /\ \A n \in Nodes :
        /\ WF_vars(NodeWork(n) /\ UNCHANGED podVars)
        /\ WF_vars(ObserveNode(n) /\ UNCHANGED podVars)
    /\ \A p \in Pods :
        WF_vars(PodWork(p)) /\ WF_vars(ObservePod(p)) /\ WF_vars(Collect(p))

FairSpec == Spec /\ Fairness

-----------------------------------------------------------------------------
(* Properties *)

PodsTyped ==
    /\ pod \in [Pods -> DataPod \cup {NULL}]
    /\ pCache \in [Pods -> DataPod \cup {NULL}]
    /\ pPc \in [Pods -> {"idle", "get", "node", "patch"}]
    /\ pSelf \in [Pods -> ViewOfPod \cup {NULL}]
    /\ fetched \in [Pods -> BOOLEAN \cup {NULL}]
    /\ target \in [Pods -> Target \cup {NULL}]

\* Every variable holds what its declaration says.
TypeOK == NodesTyped /\ PodsTyped /\ SharedTyped

\* Requests go by name, and yet the object that a reconciliation writes to is
\* the one it began with: the finalizer keeps it, and only the reconciliation
\* of the same name could take the finalizer away.
SameIncarnation ==
    /\ \A n \in Nodes :
        nPc[n] # "idle" => node[n] # NULL /\ node[n].uid = nSelf[n]
    /\ \A p \in Pods :
        pPc[p] # "idle" => pod[p] # NULL /\ pod[p].uid = pSelf[p].uid

\* A generated path is made of the DataPod's own uid, so that no DataPod gets
\* the directory of another one or of one that had its name before.
PathIsOwn ==
    \A p \in Pods : pod[p] # NULL /\ pod[p].path \in Uids => pod[p].path = pod[p].uid

\* A reconciliation that saw the path and the reference the object has changes
\* neither: only edits that it did not see are overwritten by the forced apply.
SeenEditsStay ==
    [][\A p \in Pods :
        /\ pPc[p] = "patch" /\ pPc'[p] = "idle"
        /\ pod[p] # NULL /\ pod'[p] # NULL
        /\ pSelf[p].path = pod[p].path
        /\ pSelf[p].ref = pod[p].ref
        => /\ pod[p].path # NULL => pod'[p].path = pod[p].path
           /\ pod[p].ref # NULL => pod'[p].ref = pod[p].ref]_vars

\* A DataPod whose DataNode stays gets that DataNode as its owner and has a path
\* in the end, whatever edits came before and whatever failed.
PodSettles ==
    \A p \in Pods :
        <>[](/\ running
             /\ pod[p] # NULL
             /\ ~pod[p].deleting
             /\ pod[p].ref # NULL
             /\ node[pod[p].ref] # NULL)
        => <>[](/\ pod[p] # NULL
                /\ pod[p].path # NULL
                /\ pod[p].ref # NULL
                /\ node[pod[p].ref] # NULL
                /\ pod[p].owner = node[pod[p].ref].uid)

\* Deleted objects go, unless the reconcilers have stopped or the whole namespace
\* is terminated: then their cleanup cannot publish its event.
DeletedObjectsGo ==
    \/ <>[](~running)
    \/ <>[](~open)
    \/ /\ \A n \in Nodes : ~<>[](node[n] # NULL /\ node[n].deleting)
       /\ \A p \in Pods : ~<>[](pod[p] # NULL /\ pod[p].deleting)

=============================================================================
