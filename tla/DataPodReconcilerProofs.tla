------------------------ MODULE DataPodReconcilerProofs ------------------------
(***************************************************************************)
(* Proofs about DataPodReconciler and the DataNode reconciler next to it,  *)
(* for every value of the constants: any number of objects of either kind, *)
(* of users' edits, of lives of one name and of faults.                    *)
(***************************************************************************)
EXTENDS DataPodReconciler, TLAPS

(***************************************************************************)
(* The inductive invariant.  An informer that shows an object with its     *)
(* finalizer and not deleted tells the truth about uid and finalizer, as   *)
(* only a cleanup takes the finalizer away, and a cleanup needs an         *)
(* informer that shows the object deleted.  The same holds of the object   *)
(* of a reconciliation, as no cleanup of its name runs meanwhile.          *)
(***************************************************************************)
NodesHeld ==
    \A n \in Nodes :
        /\ nCache[n] # NULL /\ nCache[n].finalizer /\ ~nCache[n].deleting =>
             node[n] # NULL /\ node[n].uid = nCache[n].uid /\ node[n].finalizer
        /\ nPc[n] # "idle" =>
             node[n] # NULL /\ node[n].uid = nSelf[n] /\ node[n].finalizer

PodsHeld ==
    \A p \in Pods :
        /\ pCache[p] # NULL /\ pCache[p].finalizer /\ ~pCache[p].deleting =>
             pod[p] # NULL /\ pod[p].uid = pCache[p].uid /\ pod[p].finalizer
        /\ pPc[p] # "idle" =>
             /\ pod[p] # NULL /\ pSelf[p] \in ViewOfPod
             /\ pod[p].uid = pSelf[p].uid /\ pod[p].finalizer

StatusChecked ==
    /\ \A n \in Nodes : nPc[n] = "status" => nSelf[n] \in checked
    /\ AvailableWasChecked

Own(obj) == obj.path \in Uids => obj.path = obj.uid

PathsOwn ==
    \A p \in Pods :
        /\ pod[p] # NULL => Own(pod[p])
        /\ pCache[p] # NULL => Own(pCache[p])
        /\ pPc[p] # "idle" => Own(pSelf[p])

TargetsFound ==
    \A p \in Pods :
        /\ pPc[p] = "patch" => target[p] \in Target /\ fetched[p] \in BOOLEAN
        /\ pPc[p] = "patch" /\ pSelf[p].ref # NULL => target[p].name = pSelf[p].ref
        /\ pPc[p] = "node" => fetched[p] \in BOOLEAN

PInv ==
    TypeOK /\ NodesHeld /\ PodsHeld /\ StatusChecked /\ PathsOwn /\ TargetsFound

LEMMA InitPInv == Init => PInv
BY ConstantsAssumption
   DEF Init, NodeInit, PodInit, SharedInit, PInv, TypeOK, NodesTyped, PodsTyped, SharedTyped,
       NodesHeld, PodsHeld, StatusChecked, AvailableWasChecked, PathsOwn, TargetsFound, Uids

-----------------------------------------------------------------------------
(* What is written to an object: its uid is the one it had *)

LEMMA NoNullNode == NULL \notin DataNode
BY ConstantsAssumption DEF DataNode

LEMMA NoNullPod == NULL \notin DataPod
BY PodsAssumption DEF DataPod

LEMMA DeletedNode ==
    ASSUME NEW obj \in DataNode
    PROVE  /\ ~obj.finalizer => Deleted(obj) = NULL
           /\ obj.finalizer => /\ Deleted(obj) \in DataNode
                               /\ Deleted(obj).uid = obj.uid
                               /\ Deleted(obj).finalizer
                               /\ Deleted(obj).available = obj.available
BY DEF Deleted, DataNode

LEMMA DeletedPod ==
    ASSUME NEW obj \in DataPod
    PROVE  /\ ~obj.finalizer => Deleted(obj) = NULL
           /\ obj.finalizer => /\ Deleted(obj) \in DataPod
                               /\ Deleted(obj).uid = obj.uid
                               /\ Deleted(obj).finalizer
                               /\ Deleted(obj).path = obj.path
BY DEF Deleted, DataPod

NodeWrite(n, new) ==
    /\ new \in DataNode
    /\ new.uid = node[n].uid
    /\ node' = [node EXCEPT ![n] = new]

PodWrite(p, new) ==
    /\ new \in DataPod
    /\ new.uid = pod[p].uid
    /\ pod' = [pod EXCEPT ![p] = new]


LEMMA AddNodeFinalizerWrites ==
    ASSUME NEW n \in Nodes, NodesTyped, AddNodeFinalizer(n)
    PROVE  \E new : /\ NodeWrite(n, new)
                    /\ new.finalizer
                    /\ new.available = node[n].available
<1> DEFINE new == [node[n] EXCEPT !.finalizer = TRUE]
<1>1. /\ node[n] \in DataNode
      /\ node' = [node EXCEPT ![n] = new]
  BY DEF NodesTyped, AddNodeFinalizer
<1>2. /\ new \in DataNode
      /\ new.uid = node[n].uid
      /\ new.finalizer
      /\ new.available = node[n].available
  BY <1>1 DEF DataNode
<1>3. QED
  BY <1>1, <1>2 DEF NodeWrite

LEMMA PatchStatusWrites ==
    ASSUME NEW n \in Nodes, NodesTyped, PatchStatus(n)
    PROVE  \E new : /\ NodeWrite(n, new)
                    /\ new.finalizer = node[n].finalizer
<1> DEFINE new == [node[n] EXCEPT !.available = TRUE]
<1>1. /\ node[n] \in DataNode
      /\ node' = [node EXCEPT ![n] = new]
  BY DEF NodesTyped, PatchStatus
<1>2. /\ new \in DataNode
      /\ new.uid = node[n].uid
      /\ new.finalizer = node[n].finalizer
  BY <1>1 DEF DataNode
<1>3. QED
  BY <1>1, <1>2 DEF NodeWrite

LEMMA CleanupNodeWrites ==
    ASSUME NEW n \in Nodes, NodesTyped, CleanupNode(n)
    PROVE  \/ node' = [node EXCEPT ![n] = NULL]
           \/ \E new : NodeWrite(n, new) /\ new.available = node[n].available
<1> DEFINE new == [node[n] EXCEPT !.finalizer = FALSE]
<1>1. /\ node[n] \in DataNode
      /\ \/ node' = [node EXCEPT ![n] = NULL]
         \/ node' = [node EXCEPT ![n] = new]
  BY DEF NodesTyped, CleanupNode
<1>2. /\ new \in DataNode
      /\ new.uid = node[n].uid
      /\ new.available = node[n].available
  BY <1>1 DEF DataNode
<1>3. QED
  BY <1>1, <1>2 DEF NodeWrite

LEMMA DeleteNodeWrites ==
    ASSUME NEW n \in Nodes, NodesTyped, DeleteNode(n)
    PROVE  \/ ~node[n].finalizer /\ node' = [node EXCEPT ![n] = NULL]
           \/ \E new : /\ NodeWrite(n, new)
                       /\ new.finalizer
                       /\ new.available = node[n].available
<1>1. /\ node[n] \in DataNode
      /\ node' = [node EXCEPT ![n] = Deleted(node[n])]
  BY DEF NodesTyped, DeleteNode
<1>2. QED
  BY <1>1, DeletedNode DEF NodeWrite, DataNode

LEMMA AddPodFinalizerWrites ==
    ASSUME NEW p \in Pods, PodsTyped, AddPodFinalizer(p)
    PROVE  \E new : /\ PodWrite(p, new)
                    /\ new.finalizer
                    /\ new.path = pod[p].path
<1> DEFINE new == [pod[p] EXCEPT !.finalizer = TRUE]
<1>1. /\ pod[p] \in DataPod
      /\ pod' = [pod EXCEPT ![p] = new]
  BY DEF PodsTyped, AddPodFinalizer
<1>2. /\ new \in DataPod
      /\ new.uid = pod[p].uid
      /\ new.finalizer
      /\ new.path = pod[p].path
  BY <1>1 DEF DataPod
<1>3. QED
  BY <1>1, <1>2 DEF PodWrite

LEMMA CleanupPodWrites ==
    ASSUME NEW p \in Pods, PodsTyped, CleanupPod(p)
    PROVE  \/ pod' = [pod EXCEPT ![p] = NULL]
           \/ \E new : PodWrite(p, new) /\ new.path = pod[p].path
<1> DEFINE new == [pod[p] EXCEPT !.finalizer = FALSE]
<1>1. /\ pod[p] \in DataPod
      /\ \/ pod' = [pod EXCEPT ![p] = NULL]
         \/ pod' = [pod EXCEPT ![p] = new]
  BY DEF PodsTyped, CleanupPod
<1>2. /\ new \in DataPod
      /\ new.uid = pod[p].uid
      /\ new.path = pod[p].path
  BY <1>1 DEF DataPod
<1>3. QED
  BY <1>1, <1>2 DEF PodWrite

LEMMA DeletePodWrites ==
    ASSUME NEW p \in Pods, PodsTyped, DeletePod(p) \/ Collect(p)
    PROVE  \/ ~pod[p].finalizer /\ pod' = [pod EXCEPT ![p] = NULL]
           \/ \E new : /\ PodWrite(p, new)
                       /\ new.finalizer
                       /\ new.path = pod[p].path
<1>1. /\ pod[p] \in DataPod
      /\ pod' = [pod EXCEPT ![p] = Deleted(pod[p])]
  BY DEF PodsTyped, DeletePod, Collect, Orphan
<1>2. QED
  BY <1>1, DeletedPod DEF PodWrite, DataPod

LEMMA EditPodWrites ==
    ASSUME NEW p \in Pods, NEW spec \in Specs, PodsTyped, EditPod(p, spec)
    PROVE  \E new : /\ PodWrite(p, new)
                    /\ new.finalizer = pod[p].finalizer
                    /\ new.path \in Paths \cup {NULL}
<1> DEFINE new == [pod[p] EXCEPT !.path = spec.path, !.ref = spec.ref,
                                 !.selector = spec.selector]
<1>1. pod[p] \in DataPod
  BY DEF PodsTyped, EditPod
<1>2. pod' = [pod EXCEPT ![p] = new]
  BY <1>1 DEF PodsTyped, EditPod
<1>3. spec \in [path : Paths \cup {NULL}, ref : Nodes \cup {NULL}, selector : BOOLEAN]
  BY PodsAssumption
<1>4. /\ new \in DataPod
      /\ new.uid = pod[p].uid
      /\ new.finalizer = pod[p].finalizer
      /\ new.path \in Paths \cup {NULL}
  BY <1>1, <1>3 DEF DataPod
<1>5. QED
  BY <1>2, <1>4 DEF PodWrite

LEMMA PatchPodWrites ==
    ASSUME NEW p \in Pods, PodsTyped, PodsHeld, TargetsFound, PatchPod(p)
    PROVE  \E new : /\ PodWrite(p, new)
                    /\ new.finalizer = pod[p].finalizer
                    /\ new.path = NewPath(pSelf[p])
<1> DEFINE new == Applied(p, pod[p])
<1>1. /\ pod[p] \in DataPod
      /\ pSelf[p] \in ViewOfPod
      /\ target[p] \in Target
      /\ fetched[p] \in BOOLEAN
      /\ pod' = [pod EXCEPT ![p] = new]
  BY DEF PodsTyped, PodsHeld, TargetsFound, PatchPod
<1>2. NewPath(pSelf[p]) \in Paths \cup Uids
  BY <1>1 DEF NewPath, ViewOfPod
<1>3. /\ target[p].name \in Nodes
      /\ target[p].uid \in Uids
  BY <1>1 DEF Target
<1>4. pod[p].selector \in BOOLEAN
  BY <1>1 DEF DataPod
<1>5. (pod[p].selector \/ fetched[p]) \in BOOLEAN
  BY <1>1, <1>4
<1>6. /\ new \in DataPod
      /\ new.uid = pod[p].uid
      /\ new.finalizer = pod[p].finalizer
      /\ new.path = NewPath(pSelf[p])
  BY <1>1, <1>2, <1>3, <1>5 DEF DataPod, Applied
<1>7. QED
  BY <1>1, <1>6 DEF PodWrite

LEMMA TerminateNodes ==
    ASSUME NEW n \in Nodes, NodesTyped, Terminate
    PROVE  \/ node'[n] = NULL /\ (node[n] # NULL => ~node[n].finalizer)
           \/ /\ node[n] # NULL
              /\ node'[n] \in DataNode
              /\ node'[n].uid = node[n].uid
              /\ node'[n].finalizer
              /\ node'[n].available = node[n].available
<1>1. node'[n] = IF node[n] = NULL THEN NULL ELSE Deleted(node[n])
  BY DEF Terminate
<1>2. node[n] \in DataNode \cup {NULL}
  BY DEF NodesTyped
<1>3. QED
  BY <1>1, <1>2, DeletedNode DEF DataNode

LEMMA TerminatePods ==
    ASSUME NEW p \in Pods, PodsTyped, Terminate
    PROVE  \/ pod'[p] = NULL /\ (pod[p] # NULL => ~pod[p].finalizer)
           \/ /\ pod[p] # NULL
              /\ pod'[p] \in DataPod
              /\ pod'[p].uid = pod[p].uid
              /\ pod'[p].finalizer
              /\ pod'[p].path = pod[p].path
<1>1. pod'[p] = IF pod[p] = NULL THEN NULL ELSE Deleted(pod[p])
  BY DEF Terminate
<1>2. pod[p] \in DataPod \cup {NULL}
  BY DEF PodsTyped
<1>3. QED
  BY <1>1, <1>2, DeletedPod DEF DataPod

-----------------------------------------------------------------------------
(* Type correctness *)

LEMMA NodesStep ==
    ASSUME PInv, [Next]_vars
    PROVE  NodesTyped'
<1> USE DEF PInv, TypeOK, NodesTyped, vars, nodeVars, podVars, nodeLocals, podLocals,
            shared
<1>1. ASSUME NEW n \in Nodes, NodeWork(n) /\ UNCHANGED podVars
      PROVE  NodesTyped'
  <2>1. CASE AddNodeFinalizer(n)
    BY <2>1, <1>1, AddNodeFinalizerWrites, NoNullNode
       DEF AddNodeFinalizer, NodeWrite
  <2>2. CASE ReconcileNode(n)
    BY <2>2, <1>1
       DEF ReconcileNode, DataNode
  <2>3. CASE CheckSource(n)
    BY <2>3, <1>1
       DEF CheckSource, NodesHeld, DataNode
  <2>4. CASE CheckFails(n)
    BY <2>4, <1>1
       DEF CheckFails, NodeEnd
  <2>5. CASE PatchStatus(n)
    BY <2>5, <1>1, PatchStatusWrites, NoNullNode
       DEF PatchStatus, NodeEnd, NodeWrite
  <2>6. CASE CleanupNode(n)
    BY <2>6, <1>1, CleanupNodeWrites, NoNullNode
       DEF CleanupNode, NodeWrite
  <2>7. QED
    BY <1>1, <2>1, <2>2, <2>3, <2>4, <2>5, <2>6 DEF NodeWork
<1>2. ASSUME NEW n \in Nodes, NodeFails(n) /\ UNCHANGED podVars
      PROVE  NodesTyped'
  BY <1>2
     DEF NodeFails, NodeEnd, Fault
<1>3. ASSUME NEW n \in Nodes, ObserveNode(n) /\ UNCHANGED podVars
      PROVE  NodesTyped'
  BY <1>3
     DEF ObserveNode
<1>4. ASSUME NEW n \in Nodes, CreateNode(n) /\ UNCHANGED podVars
      PROVE  NodesTyped'
  BY <1>4, ConstantsAssumption
     DEF CreateNode, NewUid, DataNode, Uids, SharedTyped
<1>5. ASSUME NEW n \in Nodes, DeleteNode(n) /\ UNCHANGED podVars
      PROVE  NodesTyped'
  BY <1>5, DeleteNodeWrites, NoNullNode
     DEF DeleteNode, Fault, NodeWrite
<1>6. ASSUME NEW n \in Nodes, SourceChanges(n) /\ UNCHANGED podVars
      PROVE  NodesTyped'
  BY <1>6
     DEF SourceChanges, Fault
<1>7. ASSUME NEW p \in Pods, PodWork(p)
      PROVE  NodesTyped'
  <2>1. CASE AddPodFinalizer(p)
    BY <2>1
       DEF AddPodFinalizer
  <2>2. CASE ReconcilePod(p)
    BY <2>2
       DEF ReconcilePod, View
  <2>3. CASE CleanupPod(p)
    BY <2>3
       DEF CleanupPod
  <2>4. CASE GetPod(p)
    BY <2>4
       DEF GetPod
  <2>5. CASE FindByRef(p)
    BY <2>5
       DEF FindByRef, Found
  <2>6. CASE FindBySelector(p)
    BY <2>6
       DEF FindBySelector, Found
  <2>7. CASE FindFails(p)
    BY <2>7
       DEF FindFails, PodEnd
  <2>8. CASE Panic(p)
    BY <2>8
       DEF Panic
  <2>9. CASE PatchPod(p)
    BY <2>9
       DEF PatchPod, PodEnd
  <2>10. QED
    BY <1>7, <2>1, <2>2, <2>3, <2>4, <2>5, <2>6, <2>7, <2>8, <2>9 DEF PodWork
<1>8. ASSUME NEW p \in Pods, PodFails(p)
      PROVE  NodesTyped'
  BY <1>8
     DEF PodFails, PodEnd, Fault
<1>9. ASSUME NEW p \in Pods, ObservePod(p)
      PROVE  NodesTyped'
  BY <1>9
     DEF ObservePod
<1>10. ASSUME NEW p \in Pods, DeletePod(p)
      PROVE  NodesTyped'
  BY <1>10
     DEF DeletePod, Fault
<1>11. ASSUME NEW p \in Pods, Collect(p)
      PROVE  NodesTyped'
  BY <1>11
     DEF Collect, Orphan
<1>12. ASSUME NEW p \in Pods, NEW spec \in Specs, CreatePod(p, spec)
      PROVE  NodesTyped'
  BY <1>12
     DEF CreatePod, NewUid
<1>13. ASSUME NEW p \in Pods, NEW spec \in Specs, EditPod(p, spec)
      PROVE  NodesTyped'
  BY <1>13
     DEF EditPod, Fault
<1>14. CASE Terminate
  BY <1>14, TerminateNodes, NoNullNode
     DEF Terminate, Fault
<1>15. CASE Restart
  BY <1>15
     DEF Restart, Fault
<1>16. CASE UNCHANGED vars
  BY <1>16
<1>17. QED
  BY <1>1, <1>2, <1>3, <1>4, <1>5, <1>6, <1>7, <1>8, <1>9, <1>10, <1>11, <1>12, <1>13,
     <1>14, <1>15, <1>16
     DEF Next, NodeNext, PodNext, PodUser

LEMMA PodsStep ==
    ASSUME PInv, [Next]_vars
    PROVE  PodsTyped'
<1> USE DEF PInv, TypeOK, PodsTyped, vars, nodeVars, podVars, nodeLocals, podLocals,
            shared
<1>1. ASSUME NEW n \in Nodes, NodeWork(n) /\ UNCHANGED podVars
      PROVE  PodsTyped'
  <2>1. CASE AddNodeFinalizer(n)
    BY <2>1, <1>1
       DEF AddNodeFinalizer
  <2>2. CASE ReconcileNode(n)
    BY <2>2, <1>1
       DEF ReconcileNode
  <2>3. CASE CheckSource(n)
    BY <2>3, <1>1
       DEF CheckSource
  <2>4. CASE CheckFails(n)
    BY <2>4, <1>1
       DEF CheckFails, NodeEnd
  <2>5. CASE PatchStatus(n)
    BY <2>5, <1>1
       DEF PatchStatus, NodeEnd
  <2>6. CASE CleanupNode(n)
    BY <2>6, <1>1
       DEF CleanupNode
  <2>7. QED
    BY <1>1, <2>1, <2>2, <2>3, <2>4, <2>5, <2>6 DEF NodeWork
<1>2. ASSUME NEW n \in Nodes, NodeFails(n) /\ UNCHANGED podVars
      PROVE  PodsTyped'
  BY <1>2
     DEF NodeFails, NodeEnd, Fault
<1>3. ASSUME NEW n \in Nodes, ObserveNode(n) /\ UNCHANGED podVars
      PROVE  PodsTyped'
  BY <1>3
     DEF ObserveNode
<1>4. ASSUME NEW n \in Nodes, CreateNode(n) /\ UNCHANGED podVars
      PROVE  PodsTyped'
  BY <1>4
     DEF CreateNode, NewUid
<1>5. ASSUME NEW n \in Nodes, DeleteNode(n) /\ UNCHANGED podVars
      PROVE  PodsTyped'
  BY <1>5
     DEF DeleteNode, Fault
<1>6. ASSUME NEW n \in Nodes, SourceChanges(n) /\ UNCHANGED podVars
      PROVE  PodsTyped'
  BY <1>6
     DEF SourceChanges, Fault
<1>7. ASSUME NEW p \in Pods, PodWork(p)
      PROVE  PodsTyped'
  <2>1. CASE AddPodFinalizer(p)
    BY <2>1, AddPodFinalizerWrites, NoNullPod
       DEF AddPodFinalizer, PodWrite
  <2>2. CASE ReconcilePod(p)
    BY <2>2
       DEF ReconcilePod, View, DataPod, ViewOfPod
  <2>3. CASE CleanupPod(p)
    BY <2>3, CleanupPodWrites, NoNullPod
       DEF CleanupPod, PodWrite
  <2>4. CASE GetPod(p)
    BY <2>4
       DEF GetPod, DataPod
  <2>5. CASE FindByRef(p)
    BY <2>5
       DEF FindByRef, Found, NodesTyped, DataNode, Target, ViewOfPod, PodsHeld
  <2>6. CASE FindBySelector(p)
    BY <2>6, ConstantsAssumption
       DEF FindBySelector, Found, NodesTyped, DataNode, Target
  <2>7. CASE FindFails(p)
    BY <2>7
       DEF FindFails, PodEnd
  <2>8. CASE Panic(p)
    BY <2>8
       DEF Panic
  <2>9. CASE PatchPod(p)
    BY <2>9, PatchPodWrites, NoNullPod
       DEF PatchPod, PodEnd, PodWrite
  <2>10. QED
    BY <1>7, <2>1, <2>2, <2>3, <2>4, <2>5, <2>6, <2>7, <2>8, <2>9 DEF PodWork
<1>8. ASSUME NEW p \in Pods, PodFails(p)
      PROVE  PodsTyped'
  BY <1>8
     DEF PodFails, PodEnd, Fault
<1>9. ASSUME NEW p \in Pods, ObservePod(p)
      PROVE  PodsTyped'
  BY <1>9
     DEF ObservePod
<1>10. ASSUME NEW p \in Pods, DeletePod(p)
      PROVE  PodsTyped'
  BY <1>10, DeletePodWrites, NoNullPod
     DEF DeletePod, Fault, PodWrite
<1>11. ASSUME NEW p \in Pods, Collect(p)
      PROVE  PodsTyped'
  BY <1>11, DeletePodWrites, NoNullPod
     DEF Collect, Orphan, PodWrite
<1>12. ASSUME NEW p \in Pods, NEW spec \in Specs, CreatePod(p, spec)
      PROVE  PodsTyped'
  BY <1>12, ConstantsAssumption, PodsAssumption
     DEF CreatePod, NewUid, DataPod, Uids, SharedTyped
<1>13. ASSUME NEW p \in Pods, NEW spec \in Specs, EditPod(p, spec)
      PROVE  PodsTyped'
  <2>1. pod[p] # NULL
      BY <1>13 DEF EditPod
  <2>2. UNCHANGED <<pCache, podLocals>>
      BY <1>13 DEF EditPod
  <2>3. PICK new : /\ PodWrite(p, new)
                   /\ new.finalizer = pod[p].finalizer
                   /\ new.path \in Paths \cup {NULL}
      BY <1>13, EditPodWrites
  <2>4. QED
    BY <2>1, <2>2, <2>3, NoNullPod
       DEF PodWrite
<1>14. CASE Terminate
  BY <1>14, TerminatePods, NoNullPod
     DEF Terminate, Fault
<1>15. CASE Restart
  BY <1>15
     DEF Restart, Fault
<1>16. CASE UNCHANGED vars
  BY <1>16
<1>17. QED
  BY <1>1, <1>2, <1>3, <1>4, <1>5, <1>6, <1>7, <1>8, <1>9, <1>10, <1>11, <1>12, <1>13,
     <1>14, <1>15, <1>16
     DEF Next, NodeNext, PodNext, PodUser

LEMMA SharedStep ==
    ASSUME PInv, [Next]_vars
    PROVE  SharedTyped'
<1> USE DEF PInv, TypeOK, SharedTyped, vars, nodeVars, podVars, nodeLocals, podLocals,
            shared
<1>1. ASSUME NEW n \in Nodes, NodeWork(n) /\ UNCHANGED podVars
      PROVE  SharedTyped'
  <2>1. CASE AddNodeFinalizer(n)
    BY <2>1, <1>1
       DEF AddNodeFinalizer
  <2>2. CASE ReconcileNode(n)
    BY <2>2, <1>1
       DEF ReconcileNode
  <2>3. CASE CheckSource(n)
    BY <2>3, <1>1
       DEF CheckSource
  <2>4. CASE CheckFails(n)
    BY <2>4, <1>1
       DEF CheckFails, NodeEnd
  <2>5. CASE PatchStatus(n)
    BY <2>5, <1>1
       DEF PatchStatus, NodeEnd
  <2>6. CASE CleanupNode(n)
    BY <2>6, <1>1
       DEF CleanupNode
  <2>7. QED
    BY <1>1, <2>1, <2>2, <2>3, <2>4, <2>5, <2>6 DEF NodeWork
<1>2. ASSUME NEW n \in Nodes, NodeFails(n) /\ UNCHANGED podVars
      PROVE  SharedTyped'
  BY <1>2, ConstantsAssumption
     DEF NodeFails, NodeEnd, Fault
<1>3. ASSUME NEW n \in Nodes, ObserveNode(n) /\ UNCHANGED podVars
      PROVE  SharedTyped'
  BY <1>3
     DEF ObserveNode
<1>4. ASSUME NEW n \in Nodes, CreateNode(n) /\ UNCHANGED podVars
      PROVE  SharedTyped'
  BY <1>4, ConstantsAssumption
     DEF CreateNode, NewUid
<1>5. ASSUME NEW n \in Nodes, DeleteNode(n) /\ UNCHANGED podVars
      PROVE  SharedTyped'
  BY <1>5, ConstantsAssumption
     DEF DeleteNode, Fault
<1>6. ASSUME NEW n \in Nodes, SourceChanges(n) /\ UNCHANGED podVars
      PROVE  SharedTyped'
  BY <1>6, ConstantsAssumption
     DEF SourceChanges, Fault
<1>7. ASSUME NEW p \in Pods, PodWork(p)
      PROVE  SharedTyped'
  <2>1. CASE AddPodFinalizer(p)
    BY <2>1
       DEF AddPodFinalizer
  <2>2. CASE ReconcilePod(p)
    BY <2>2
       DEF ReconcilePod, View
  <2>3. CASE CleanupPod(p)
    BY <2>3
       DEF CleanupPod
  <2>4. CASE GetPod(p)
    BY <2>4
       DEF GetPod
  <2>5. CASE FindByRef(p)
    BY <2>5
       DEF FindByRef, Found
  <2>6. CASE FindBySelector(p)
    BY <2>6
       DEF FindBySelector, Found
  <2>7. CASE FindFails(p)
    BY <2>7
       DEF FindFails, PodEnd
  <2>8. CASE Panic(p)
    BY <2>8
       DEF Panic
  <2>9. CASE PatchPod(p)
    BY <2>9
       DEF PatchPod, PodEnd
  <2>10. QED
    BY <1>7, <2>1, <2>2, <2>3, <2>4, <2>5, <2>6, <2>7, <2>8, <2>9 DEF PodWork
<1>8. ASSUME NEW p \in Pods, PodFails(p)
      PROVE  SharedTyped'
  BY <1>8, ConstantsAssumption
     DEF PodFails, PodEnd, Fault
<1>9. ASSUME NEW p \in Pods, ObservePod(p)
      PROVE  SharedTyped'
  BY <1>9
     DEF ObservePod
<1>10. ASSUME NEW p \in Pods, DeletePod(p)
      PROVE  SharedTyped'
  BY <1>10, ConstantsAssumption
     DEF DeletePod, Fault
<1>11. ASSUME NEW p \in Pods, Collect(p)
      PROVE  SharedTyped'
  BY <1>11
     DEF Collect, Orphan
<1>12. ASSUME NEW p \in Pods, NEW spec \in Specs, CreatePod(p, spec)
      PROVE  SharedTyped'
  BY <1>12, ConstantsAssumption
     DEF CreatePod, NewUid
<1>13. ASSUME NEW p \in Pods, NEW spec \in Specs, EditPod(p, spec)
      PROVE  SharedTyped'
  BY <1>13, ConstantsAssumption
     DEF EditPod, Fault
<1>14. CASE Terminate
  <2>1. /\ faults < MaxFaults
        /\ faults' = faults + 1
        /\ open' = FALSE
        /\ UNCHANGED <<uids, running>>
    BY <1>14 DEF Terminate, Fault
  <2>2. faults' \in 0 .. MaxFaults
    <3>1. MaxFaults \in Nat
      BY ConstantsAssumption
    <3>2. faults \in 0 .. MaxFaults
      OBVIOUS
    <3>3. QED
      BY <2>1, <3>1, <3>2
  <2>3. QED
    BY <2>1, <2>2
<1>15. CASE Restart
  BY <1>15, ConstantsAssumption
     DEF Restart, Fault
<1>16. CASE UNCHANGED vars
  BY <1>16
<1>17. QED
  BY <1>1, <1>2, <1>3, <1>4, <1>5, <1>6, <1>7, <1>8, <1>9, <1>10, <1>11, <1>12, <1>13,
     <1>14, <1>15, <1>16
     DEF Next, NodeNext, PodNext, PodUser

-----------------------------------------------------------------------------
(* What the finalizer holds *)

LEMMA NodesHeldStep ==
    ASSUME PInv, [Next]_vars
    PROVE  NodesHeld'
<1> USE DEF PInv, TypeOK, NodesTyped, NodesHeld, vars, nodeVars, podVars, nodeLocals,
            podLocals, shared
<1>1. ASSUME NEW n \in Nodes, NodeWork(n) /\ UNCHANGED podVars
      PROVE  NodesHeld'
  <2>1. CASE AddNodeFinalizer(n)
    BY <2>1, <1>1, AddNodeFinalizerWrites, NoNullNode
       DEF AddNodeFinalizer, NodeWrite
  <2>2. CASE ReconcileNode(n)
    BY <2>2, <1>1
       DEF ReconcileNode
  <2>3. CASE CheckSource(n)
    BY <2>3, <1>1
       DEF CheckSource
  <2>4. CASE CheckFails(n)
    BY <2>4, <1>1
       DEF CheckFails, NodeEnd
  <2>5. CASE PatchStatus(n)
    <3>1. nPc[n] = "status" /\ node[n] # NULL /\ NodeEnd(n)
        BY <2>5, <1>1 DEF PatchStatus
    <3>2. UNCHANGED <<nCache, checked>>
        BY <2>5, <1>1 DEF PatchStatus
    <3>3. PICK new : /\ NodeWrite(n, new)
                     /\ new.finalizer = node[n].finalizer
        BY <2>5, PatchStatusWrites
    <3>4. QED
      BY <3>1, <3>2, <3>3, NoNullNode
         DEF NodeWrite, NodeEnd
  <2>6. CASE CleanupNode(n)
    BY <2>6, <1>1, CleanupNodeWrites, NoNullNode
       DEF CleanupNode, NodeWrite
  <2>7. QED
    BY <1>1, <2>1, <2>2, <2>3, <2>4, <2>5, <2>6 DEF NodeWork
<1>2. ASSUME NEW n \in Nodes, NodeFails(n) /\ UNCHANGED podVars
      PROVE  NodesHeld'
  BY <1>2
     DEF NodeFails, NodeEnd, Fault
<1>3. ASSUME NEW n \in Nodes, ObserveNode(n) /\ UNCHANGED podVars
      PROVE  NodesHeld'
  BY <1>3
     DEF ObserveNode
<1>4. ASSUME NEW n \in Nodes, CreateNode(n) /\ UNCHANGED podVars
      PROVE  NodesHeld'
  BY <1>4, NoNullNode
     DEF CreateNode, NewUid, DataNode
<1>5. ASSUME NEW n \in Nodes, DeleteNode(n) /\ UNCHANGED podVars
      PROVE  NodesHeld'
  <2>1. node[n] # NULL
      BY <1>5 DEF DeleteNode
  <2>2. UNCHANGED <<nCache, nPc, nSelf, checked>>
      BY <1>5 DEF DeleteNode
  <2>3. CASE ~node[n].finalizer /\ node' = [node EXCEPT ![n] = NULL]
    BY <2>1, <2>2, <2>3, NoNullNode
  <2>4. CASE \E new : /\ NodeWrite(n, new)
                      /\ new.finalizer
                      /\ new.available = node[n].available
    <3>1. PICK new : /\ NodeWrite(n, new)
                     /\ new.finalizer
                     /\ new.available = node[n].available
        BY <2>4
    <3>2. QED
      BY <2>1, <2>2, <3>1, NoNullNode
         DEF NodeWrite
  <2>5. QED
    BY <1>5, <2>3, <2>4, DeleteNodeWrites
<1>6. ASSUME NEW n \in Nodes, SourceChanges(n) /\ UNCHANGED podVars
      PROVE  NodesHeld'
  BY <1>6
     DEF SourceChanges, Fault
<1>7. ASSUME NEW p \in Pods, PodWork(p)
      PROVE  NodesHeld'
  <2>1. CASE AddPodFinalizer(p)
    BY <2>1
       DEF AddPodFinalizer
  <2>2. CASE ReconcilePod(p)
    BY <2>2
       DEF ReconcilePod, View
  <2>3. CASE CleanupPod(p)
    BY <2>3
       DEF CleanupPod
  <2>4. CASE GetPod(p)
    BY <2>4
       DEF GetPod
  <2>5. CASE FindByRef(p)
    BY <2>5
       DEF FindByRef, Found
  <2>6. CASE FindBySelector(p)
    BY <2>6
       DEF FindBySelector, Found
  <2>7. CASE FindFails(p)
    BY <2>7
       DEF FindFails, PodEnd
  <2>8. CASE Panic(p)
    BY <2>8
       DEF Panic
  <2>9. CASE PatchPod(p)
    BY <2>9
       DEF PatchPod, PodEnd
  <2>10. QED
    BY <1>7, <2>1, <2>2, <2>3, <2>4, <2>5, <2>6, <2>7, <2>8, <2>9 DEF PodWork
<1>8. ASSUME NEW p \in Pods, PodFails(p)
      PROVE  NodesHeld'
  BY <1>8
     DEF PodFails, PodEnd, Fault
<1>9. ASSUME NEW p \in Pods, ObservePod(p)
      PROVE  NodesHeld'
  BY <1>9
     DEF ObservePod
<1>10. ASSUME NEW p \in Pods, DeletePod(p)
      PROVE  NodesHeld'
  BY <1>10
     DEF DeletePod, Fault
<1>11. ASSUME NEW p \in Pods, Collect(p)
      PROVE  NodesHeld'
  BY <1>11
     DEF Collect, Orphan
<1>12. ASSUME NEW p \in Pods, NEW spec \in Specs, CreatePod(p, spec)
      PROVE  NodesHeld'
  BY <1>12
     DEF CreatePod, NewUid
<1>13. ASSUME NEW p \in Pods, NEW spec \in Specs, EditPod(p, spec)
      PROVE  NodesHeld'
  BY <1>13
     DEF EditPod, Fault
<1>14. CASE Terminate
  BY <1>14, TerminateNodes, NoNullNode
     DEF Terminate, Fault
<1>15. CASE Restart
  BY <1>15
     DEF Restart, Fault
<1>16. CASE UNCHANGED vars
  BY <1>16
<1>17. QED
  BY <1>1, <1>2, <1>3, <1>4, <1>5, <1>6, <1>7, <1>8, <1>9, <1>10, <1>11, <1>12, <1>13,
     <1>14, <1>15, <1>16
     DEF Next, NodeNext, PodNext, PodUser

LEMMA PodsHeldStep ==
    ASSUME PInv, [Next]_vars
    PROVE  PodsHeld'
<1> USE DEF PInv, TypeOK, PodsTyped, PodsHeld, vars, nodeVars, podVars, nodeLocals,
            podLocals, shared
<1>1. ASSUME NEW n \in Nodes, NodeWork(n) /\ UNCHANGED podVars
      PROVE  PodsHeld'
  <2>1. CASE AddNodeFinalizer(n)
    BY <2>1, <1>1
       DEF AddNodeFinalizer
  <2>2. CASE ReconcileNode(n)
    BY <2>2, <1>1
       DEF ReconcileNode
  <2>3. CASE CheckSource(n)
    BY <2>3, <1>1
       DEF CheckSource
  <2>4. CASE CheckFails(n)
    BY <2>4, <1>1
       DEF CheckFails, NodeEnd
  <2>5. CASE PatchStatus(n)
    BY <2>5, <1>1
       DEF PatchStatus, NodeEnd
  <2>6. CASE CleanupNode(n)
    BY <2>6, <1>1
       DEF CleanupNode
  <2>7. QED
    BY <1>1, <2>1, <2>2, <2>3, <2>4, <2>5, <2>6 DEF NodeWork
<1>2. ASSUME NEW n \in Nodes, NodeFails(n) /\ UNCHANGED podVars
      PROVE  PodsHeld'
  BY <1>2
     DEF NodeFails, NodeEnd, Fault
<1>3. ASSUME NEW n \in Nodes, ObserveNode(n) /\ UNCHANGED podVars
      PROVE  PodsHeld'
  BY <1>3
     DEF ObserveNode
<1>4. ASSUME NEW n \in Nodes, CreateNode(n) /\ UNCHANGED podVars
      PROVE  PodsHeld'
  BY <1>4
     DEF CreateNode, NewUid
<1>5. ASSUME NEW n \in Nodes, DeleteNode(n) /\ UNCHANGED podVars
      PROVE  PodsHeld'
  BY <1>5
     DEF DeleteNode, Fault
<1>6. ASSUME NEW n \in Nodes, SourceChanges(n) /\ UNCHANGED podVars
      PROVE  PodsHeld'
  BY <1>6
     DEF SourceChanges, Fault
<1>7. ASSUME NEW p \in Pods, PodWork(p)
      PROVE  PodsHeld'
  <2>1. CASE AddPodFinalizer(p)
    BY <2>1, AddPodFinalizerWrites, NoNullPod
       DEF AddPodFinalizer, PodWrite
  <2>2. CASE ReconcilePod(p)
    BY <2>2, PodsAssumption
       DEF ReconcilePod, View, DataPod, ViewOfPod
  <2>3. CASE CleanupPod(p)
    BY <2>3, CleanupPodWrites, NoNullPod
       DEF CleanupPod, PodWrite
  <2>4. CASE GetPod(p)
    BY <2>4
       DEF GetPod
  <2>5. CASE FindByRef(p)
    BY <2>5
       DEF FindByRef, Found
  <2>6. CASE FindBySelector(p)
    BY <2>6
       DEF FindBySelector, Found
  <2>7. CASE FindFails(p)
    BY <2>7
       DEF FindFails, PodEnd
  <2>8. CASE Panic(p)
    BY <2>8
       DEF Panic
  <2>9. CASE PatchPod(p)
    <3>1. pPc[p] = "patch" /\ pod[p] # NULL /\ PodEnd(p)
        BY <2>9 DEF PatchPod
    <3>2. UNCHANGED pCache
        BY <2>9 DEF PatchPod
    <3>3. PICK new : /\ PodWrite(p, new)
                     /\ new.finalizer = pod[p].finalizer
                     /\ new.path = NewPath(pSelf[p])
        BY <2>9, PatchPodWrites
    <3>4. QED
      BY <3>1, <3>2, <3>3, NoNullPod
         DEF PodWrite, PodEnd
  <2>10. QED
    BY <1>7, <2>1, <2>2, <2>3, <2>4, <2>5, <2>6, <2>7, <2>8, <2>9 DEF PodWork
<1>8. ASSUME NEW p \in Pods, PodFails(p)
      PROVE  PodsHeld'
  BY <1>8
     DEF PodFails, PodEnd, Fault
<1>9. ASSUME NEW p \in Pods, ObservePod(p)
      PROVE  PodsHeld'
  BY <1>9
     DEF ObservePod
<1>10. ASSUME NEW p \in Pods, DeletePod(p)
      PROVE  PodsHeld'
  <2>1. pod[p] # NULL
      BY <1>10 DEF DeletePod
  <2>2. UNCHANGED <<pCache, podLocals>>
      BY <1>10 DEF DeletePod
  <2>3. CASE ~pod[p].finalizer /\ pod' = [pod EXCEPT ![p] = NULL]
    BY <2>1, <2>2, <2>3, NoNullPod
  <2>4. CASE \E new : /\ PodWrite(p, new)
                      /\ new.finalizer
                      /\ new.path = pod[p].path
    <3>1. PICK new : /\ PodWrite(p, new)
                     /\ new.finalizer
                     /\ new.path = pod[p].path
        BY <2>4
    <3>2. QED
      BY <2>1, <2>2, <3>1, NoNullPod
         DEF PodWrite
  <2>5. QED
    BY <1>10, <2>3, <2>4, DeletePodWrites
<1>11. ASSUME NEW p \in Pods, Collect(p)
      PROVE  PodsHeld'
  <2>1. pod[p] # NULL
      BY <1>11 DEF Collect, Orphan
  <2>2. UNCHANGED <<pCache, podLocals>>
      BY <1>11 DEF Collect
  <2>3. CASE ~pod[p].finalizer /\ pod' = [pod EXCEPT ![p] = NULL]
    BY <2>1, <2>2, <2>3, NoNullPod
  <2>4. CASE \E new : /\ PodWrite(p, new)
                      /\ new.finalizer
                      /\ new.path = pod[p].path
    <3>1. PICK new : /\ PodWrite(p, new)
                     /\ new.finalizer
                     /\ new.path = pod[p].path
        BY <2>4
    <3>2. QED
      BY <2>1, <2>2, <3>1, NoNullPod
         DEF PodWrite
  <2>5. QED
    BY <1>11, <2>3, <2>4, DeletePodWrites
<1>12. ASSUME NEW p \in Pods, NEW spec \in Specs, CreatePod(p, spec)
      PROVE  PodsHeld'
  BY <1>12, NoNullPod
     DEF CreatePod, NewUid, DataPod
<1>13. ASSUME NEW p \in Pods, NEW spec \in Specs, EditPod(p, spec)
      PROVE  PodsHeld'
  <2>1. pod[p] # NULL
      BY <1>13 DEF EditPod
  <2>2. UNCHANGED <<pCache, podLocals>>
      BY <1>13 DEF EditPod
  <2>3. PICK new : /\ PodWrite(p, new)
                   /\ new.finalizer = pod[p].finalizer
                   /\ new.path \in Paths \cup {NULL}
      BY <1>13, EditPodWrites
  <2>4. QED
    BY <2>1, <2>2, <2>3, NoNullPod
       DEF PodWrite
<1>14. CASE Terminate
  BY <1>14, TerminatePods, NoNullPod
     DEF Terminate, Fault
<1>15. CASE Restart
  BY <1>15
     DEF Restart, Fault
<1>16. CASE UNCHANGED vars
  BY <1>16
<1>17. QED
  BY <1>1, <1>2, <1>3, <1>4, <1>5, <1>6, <1>7, <1>8, <1>9, <1>10, <1>11, <1>12, <1>13,
     <1>14, <1>15, <1>16
     DEF Next, NodeNext, PodNext, PodUser

LEMMA StatusStep ==
    ASSUME PInv, [Next]_vars
    PROVE  StatusChecked'
<1> USE DEF PInv, TypeOK, NodesTyped, NodesHeld, StatusChecked, AvailableWasChecked,
            vars, nodeVars, podVars, nodeLocals, podLocals, shared
<1>1. ASSUME NEW n \in Nodes, NodeWork(n) /\ UNCHANGED podVars
      PROVE  StatusChecked'
  <2>1. CASE AddNodeFinalizer(n)
    BY <2>1, <1>1, AddNodeFinalizerWrites, NoNullNode
       DEF AddNodeFinalizer, NodeWrite
  <2>2. CASE ReconcileNode(n)
    BY <2>2, <1>1
       DEF ReconcileNode
  <2>3. CASE CheckSource(n)
    BY <2>3, <1>1
       DEF CheckSource
  <2>4. CASE CheckFails(n)
    BY <2>4, <1>1
       DEF CheckFails, NodeEnd
  <2>5. CASE PatchStatus(n)
    BY <2>5, <1>1, PatchStatusWrites, NoNullNode
       DEF PatchStatus, NodeEnd, NodeWrite
  <2>6. CASE CleanupNode(n)
    BY <2>6, <1>1, CleanupNodeWrites, NoNullNode
       DEF CleanupNode, NodeWrite
  <2>7. QED
    BY <1>1, <2>1, <2>2, <2>3, <2>4, <2>5, <2>6 DEF NodeWork
<1>2. ASSUME NEW n \in Nodes, NodeFails(n) /\ UNCHANGED podVars
      PROVE  StatusChecked'
  BY <1>2
     DEF NodeFails, NodeEnd, Fault
<1>3. ASSUME NEW n \in Nodes, ObserveNode(n) /\ UNCHANGED podVars
      PROVE  StatusChecked'
  BY <1>3
     DEF ObserveNode
<1>4. ASSUME NEW n \in Nodes, CreateNode(n) /\ UNCHANGED podVars
      PROVE  StatusChecked'
  BY <1>4, NoNullNode
     DEF CreateNode, NewUid, DataNode
<1>5. ASSUME NEW n \in Nodes, DeleteNode(n) /\ UNCHANGED podVars
      PROVE  StatusChecked'
  <2>1. node[n] # NULL
      BY <1>5 DEF DeleteNode
  <2>2. UNCHANGED <<nCache, nPc, nSelf, checked>>
      BY <1>5 DEF DeleteNode
  <2>3. CASE ~node[n].finalizer /\ node' = [node EXCEPT ![n] = NULL]
    BY <2>1, <2>2, <2>3, NoNullNode
  <2>4. CASE \E new : /\ NodeWrite(n, new)
                      /\ new.finalizer
                      /\ new.available = node[n].available
    <3>1. PICK new : /\ NodeWrite(n, new)
                     /\ new.finalizer
                     /\ new.available = node[n].available
        BY <2>4
    <3>2. QED
      BY <2>1, <2>2, <3>1, NoNullNode
         DEF NodeWrite
  <2>5. QED
    BY <1>5, <2>3, <2>4, DeleteNodeWrites
<1>6. ASSUME NEW n \in Nodes, SourceChanges(n) /\ UNCHANGED podVars
      PROVE  StatusChecked'
  BY <1>6
     DEF SourceChanges, Fault
<1>7. ASSUME NEW p \in Pods, PodWork(p)
      PROVE  StatusChecked'
  <2>1. CASE AddPodFinalizer(p)
    BY <2>1
       DEF AddPodFinalizer
  <2>2. CASE ReconcilePod(p)
    BY <2>2
       DEF ReconcilePod, View
  <2>3. CASE CleanupPod(p)
    BY <2>3
       DEF CleanupPod
  <2>4. CASE GetPod(p)
    BY <2>4
       DEF GetPod
  <2>5. CASE FindByRef(p)
    BY <2>5
       DEF FindByRef, Found
  <2>6. CASE FindBySelector(p)
    BY <2>6
       DEF FindBySelector, Found
  <2>7. CASE FindFails(p)
    BY <2>7
       DEF FindFails, PodEnd
  <2>8. CASE Panic(p)
    BY <2>8
       DEF Panic
  <2>9. CASE PatchPod(p)
    BY <2>9
       DEF PatchPod, PodEnd
  <2>10. QED
    BY <1>7, <2>1, <2>2, <2>3, <2>4, <2>5, <2>6, <2>7, <2>8, <2>9 DEF PodWork
<1>8. ASSUME NEW p \in Pods, PodFails(p)
      PROVE  StatusChecked'
  BY <1>8
     DEF PodFails, PodEnd, Fault
<1>9. ASSUME NEW p \in Pods, ObservePod(p)
      PROVE  StatusChecked'
  BY <1>9
     DEF ObservePod
<1>10. ASSUME NEW p \in Pods, DeletePod(p)
      PROVE  StatusChecked'
  BY <1>10
     DEF DeletePod, Fault
<1>11. ASSUME NEW p \in Pods, Collect(p)
      PROVE  StatusChecked'
  BY <1>11
     DEF Collect, Orphan
<1>12. ASSUME NEW p \in Pods, NEW spec \in Specs, CreatePod(p, spec)
      PROVE  StatusChecked'
  BY <1>12
     DEF CreatePod, NewUid
<1>13. ASSUME NEW p \in Pods, NEW spec \in Specs, EditPod(p, spec)
      PROVE  StatusChecked'
  BY <1>13
     DEF EditPod, Fault
<1>14. CASE Terminate
  BY <1>14, TerminateNodes, NoNullNode
     DEF Terminate, Fault
<1>15. CASE Restart
  BY <1>15
     DEF Restart, Fault
<1>16. CASE UNCHANGED vars
  BY <1>16
<1>17. QED
  BY <1>1, <1>2, <1>3, <1>4, <1>5, <1>6, <1>7, <1>8, <1>9, <1>10, <1>11, <1>12, <1>13,
     <1>14, <1>15, <1>16
     DEF Next, NodeNext, PodNext, PodUser

-----------------------------------------------------------------------------
(* Paths and targets *)

LEMMA PathsStep ==
    ASSUME PInv, [Next]_vars
    PROVE  PathsOwn'
<1> USE DEF PInv, TypeOK, PodsTyped, PodsHeld, PathsOwn, Own, vars, nodeVars, podVars,
            nodeLocals, podLocals, shared
<1>1. ASSUME NEW n \in Nodes, NodeWork(n) /\ UNCHANGED podVars
      PROVE  PathsOwn'
  <2>1. CASE AddNodeFinalizer(n)
    BY <2>1, <1>1
       DEF AddNodeFinalizer
  <2>2. CASE ReconcileNode(n)
    BY <2>2, <1>1
       DEF ReconcileNode
  <2>3. CASE CheckSource(n)
    BY <2>3, <1>1
       DEF CheckSource
  <2>4. CASE CheckFails(n)
    BY <2>4, <1>1
       DEF CheckFails, NodeEnd
  <2>5. CASE PatchStatus(n)
    BY <2>5, <1>1
       DEF PatchStatus, NodeEnd
  <2>6. CASE CleanupNode(n)
    BY <2>6, <1>1
       DEF CleanupNode
  <2>7. QED
    BY <1>1, <2>1, <2>2, <2>3, <2>4, <2>5, <2>6 DEF NodeWork
<1>2. ASSUME NEW n \in Nodes, NodeFails(n) /\ UNCHANGED podVars
      PROVE  PathsOwn'
  BY <1>2
     DEF NodeFails, NodeEnd, Fault
<1>3. ASSUME NEW n \in Nodes, ObserveNode(n) /\ UNCHANGED podVars
      PROVE  PathsOwn'
  BY <1>3
     DEF ObserveNode
<1>4. ASSUME NEW n \in Nodes, CreateNode(n) /\ UNCHANGED podVars
      PROVE  PathsOwn'
  BY <1>4
     DEF CreateNode, NewUid
<1>5. ASSUME NEW n \in Nodes, DeleteNode(n) /\ UNCHANGED podVars
      PROVE  PathsOwn'
  BY <1>5
     DEF DeleteNode, Fault
<1>6. ASSUME NEW n \in Nodes, SourceChanges(n) /\ UNCHANGED podVars
      PROVE  PathsOwn'
  BY <1>6
     DEF SourceChanges, Fault
<1>7. ASSUME NEW p \in Pods, PodWork(p)
      PROVE  PathsOwn'
  <2>1. CASE AddPodFinalizer(p)
    BY <2>1, AddPodFinalizerWrites, NoNullPod
       DEF AddPodFinalizer, PodWrite
  <2>2. CASE ReconcilePod(p)
    BY <2>2, PodsAssumption
       DEF ReconcilePod, View, DataPod, ViewOfPod
  <2>3. CASE CleanupPod(p)
    BY <2>3, CleanupPodWrites, NoNullPod
       DEF CleanupPod, PodWrite
  <2>4. CASE GetPod(p)
    BY <2>4
       DEF GetPod
  <2>5. CASE FindByRef(p)
    BY <2>5
       DEF FindByRef, Found
  <2>6. CASE FindBySelector(p)
    BY <2>6
       DEF FindBySelector, Found
  <2>7. CASE FindFails(p)
    BY <2>7
       DEF FindFails, PodEnd
  <2>8. CASE Panic(p)
    BY <2>8
       DEF Panic
  <2>9. CASE PatchPod(p)
    <3>1. pPc[p] = "patch" /\ pod[p] # NULL /\ PodEnd(p)
        BY <2>9 DEF PatchPod
    <3>2. UNCHANGED pCache
        BY <2>9 DEF PatchPod
    <3>3. PICK new : /\ PodWrite(p, new)
                     /\ new.finalizer = pod[p].finalizer
                     /\ new.path = NewPath(pSelf[p])
        BY <2>9, PatchPodWrites
    <3>4. QED
      BY <3>1, <3>2, <3>3, NoNullPod, PodsAssumption
         DEF PodWrite, PodEnd, NewPath, ViewOfPod
  <2>10. QED
    BY <1>7, <2>1, <2>2, <2>3, <2>4, <2>5, <2>6, <2>7, <2>8, <2>9 DEF PodWork
<1>8. ASSUME NEW p \in Pods, PodFails(p)
      PROVE  PathsOwn'
  BY <1>8
     DEF PodFails, PodEnd, Fault
<1>9. ASSUME NEW p \in Pods, ObservePod(p)
      PROVE  PathsOwn'
  BY <1>9
     DEF ObservePod
<1>10. ASSUME NEW p \in Pods, DeletePod(p)
      PROVE  PathsOwn'
  <2>1. pod[p] # NULL
      BY <1>10 DEF DeletePod
  <2>2. UNCHANGED <<pCache, podLocals>>
      BY <1>10 DEF DeletePod
  <2>3. CASE ~pod[p].finalizer /\ pod' = [pod EXCEPT ![p] = NULL]
    BY <2>1, <2>2, <2>3, NoNullPod
  <2>4. CASE \E new : /\ PodWrite(p, new)
                      /\ new.finalizer
                      /\ new.path = pod[p].path
    <3>1. PICK new : /\ PodWrite(p, new)
                     /\ new.finalizer
                     /\ new.path = pod[p].path
        BY <2>4
    <3>2. QED
      BY <2>1, <2>2, <3>1, NoNullPod
         DEF PodWrite
  <2>5. QED
    BY <1>10, <2>3, <2>4, DeletePodWrites
<1>11. ASSUME NEW p \in Pods, Collect(p)
      PROVE  PathsOwn'
  <2>1. pod[p] # NULL
      BY <1>11 DEF Collect, Orphan
  <2>2. UNCHANGED <<pCache, podLocals>>
      BY <1>11 DEF Collect
  <2>3. CASE ~pod[p].finalizer /\ pod' = [pod EXCEPT ![p] = NULL]
    BY <2>1, <2>2, <2>3, NoNullPod
  <2>4. CASE \E new : /\ PodWrite(p, new)
                      /\ new.finalizer
                      /\ new.path = pod[p].path
    <3>1. PICK new : /\ PodWrite(p, new)
                     /\ new.finalizer
                     /\ new.path = pod[p].path
        BY <2>4
    <3>2. QED
      BY <2>1, <2>2, <3>1, NoNullPod
         DEF PodWrite
  <2>5. QED
    BY <1>11, <2>3, <2>4, DeletePodWrites
<1>12. ASSUME NEW p \in Pods, NEW spec \in Specs, CreatePod(p, spec)
      PROVE  PathsOwn'
  BY <1>12, NoNullPod, PodsAssumption, ConstantsAssumption
     DEF CreatePod, NewUid, DataPod, Uids
<1>13. ASSUME NEW p \in Pods, NEW spec \in Specs, EditPod(p, spec)
      PROVE  PathsOwn'
  <2>1. pod[p] # NULL
      BY <1>13 DEF EditPod
  <2>2. UNCHANGED <<pCache, podLocals>>
      BY <1>13 DEF EditPod
  <2>3. PICK new : /\ PodWrite(p, new)
                   /\ new.finalizer = pod[p].finalizer
                   /\ new.path \in Paths \cup {NULL}
      BY <1>13, EditPodWrites
  <2>4. QED
    BY <2>1, <2>2, <2>3, NoNullPod, PodsAssumption, ConstantsAssumption
       DEF PodWrite, Uids
<1>14. CASE Terminate
  BY <1>14, TerminatePods, NoNullPod
     DEF Terminate, Fault
<1>15. CASE Restart
  BY <1>15
     DEF Restart, Fault
<1>16. CASE UNCHANGED vars
  BY <1>16
<1>17. QED
  BY <1>1, <1>2, <1>3, <1>4, <1>5, <1>6, <1>7, <1>8, <1>9, <1>10, <1>11, <1>12, <1>13,
     <1>14, <1>15, <1>16
     DEF Next, NodeNext, PodNext, PodUser

LEMMA TargetsStep ==
    ASSUME PInv, [Next]_vars
    PROVE  TargetsFound'
<1> USE DEF PInv, TypeOK, PodsTyped, PodsHeld, TargetsFound, vars, nodeVars, podVars,
            nodeLocals, podLocals, shared
<1>1. ASSUME NEW n \in Nodes, NodeWork(n) /\ UNCHANGED podVars
      PROVE  TargetsFound'
  <2>1. CASE AddNodeFinalizer(n)
    BY <2>1, <1>1
       DEF AddNodeFinalizer
  <2>2. CASE ReconcileNode(n)
    BY <2>2, <1>1
       DEF ReconcileNode
  <2>3. CASE CheckSource(n)
    BY <2>3, <1>1
       DEF CheckSource
  <2>4. CASE CheckFails(n)
    BY <2>4, <1>1
       DEF CheckFails, NodeEnd
  <2>5. CASE PatchStatus(n)
    BY <2>5, <1>1
       DEF PatchStatus, NodeEnd
  <2>6. CASE CleanupNode(n)
    BY <2>6, <1>1
       DEF CleanupNode
  <2>7. QED
    BY <1>1, <2>1, <2>2, <2>3, <2>4, <2>5, <2>6 DEF NodeWork
<1>2. ASSUME NEW n \in Nodes, NodeFails(n) /\ UNCHANGED podVars
      PROVE  TargetsFound'
  BY <1>2
     DEF NodeFails, NodeEnd, Fault
<1>3. ASSUME NEW n \in Nodes, ObserveNode(n) /\ UNCHANGED podVars
      PROVE  TargetsFound'
  BY <1>3
     DEF ObserveNode
<1>4. ASSUME NEW n \in Nodes, CreateNode(n) /\ UNCHANGED podVars
      PROVE  TargetsFound'
  BY <1>4
     DEF CreateNode, NewUid
<1>5. ASSUME NEW n \in Nodes, DeleteNode(n) /\ UNCHANGED podVars
      PROVE  TargetsFound'
  BY <1>5
     DEF DeleteNode, Fault
<1>6. ASSUME NEW n \in Nodes, SourceChanges(n) /\ UNCHANGED podVars
      PROVE  TargetsFound'
  BY <1>6
     DEF SourceChanges, Fault
<1>7. ASSUME NEW p \in Pods, PodWork(p)
      PROVE  TargetsFound'
  <2>1. CASE AddPodFinalizer(p)
    BY <2>1
       DEF AddPodFinalizer
  <2>2. CASE ReconcilePod(p)
    BY <2>2
       DEF ReconcilePod, View
  <2>3. CASE CleanupPod(p)
    BY <2>3
       DEF CleanupPod
  <2>4. CASE GetPod(p)
    BY <2>4
       DEF GetPod, DataPod
  <2>5. CASE FindByRef(p)
    BY <2>5
       DEF FindByRef, Found, NodesTyped, DataNode, ViewOfPod, Target
  <2>6. CASE FindBySelector(p)
    BY <2>6, ConstantsAssumption
       DEF FindBySelector, Found, NodesTyped, DataNode, Target
  <2>7. CASE FindFails(p)
    BY <2>7
       DEF FindFails, PodEnd
  <2>8. CASE Panic(p)
    BY <2>8
       DEF Panic
  <2>9. CASE PatchPod(p)
    BY <2>9
       DEF PatchPod, PodEnd
  <2>10. QED
    BY <1>7, <2>1, <2>2, <2>3, <2>4, <2>5, <2>6, <2>7, <2>8, <2>9 DEF PodWork
<1>8. ASSUME NEW p \in Pods, PodFails(p)
      PROVE  TargetsFound'
  BY <1>8
     DEF PodFails, PodEnd, Fault
<1>9. ASSUME NEW p \in Pods, ObservePod(p)
      PROVE  TargetsFound'
  BY <1>9
     DEF ObservePod
<1>10. ASSUME NEW p \in Pods, DeletePod(p)
      PROVE  TargetsFound'
  BY <1>10
     DEF DeletePod, Fault
<1>11. ASSUME NEW p \in Pods, Collect(p)
      PROVE  TargetsFound'
  BY <1>11
     DEF Collect, Orphan
<1>12. ASSUME NEW p \in Pods, NEW spec \in Specs, CreatePod(p, spec)
      PROVE  TargetsFound'
  BY <1>12
     DEF CreatePod, NewUid
<1>13. ASSUME NEW p \in Pods, NEW spec \in Specs, EditPod(p, spec)
      PROVE  TargetsFound'
  BY <1>13
     DEF EditPod, Fault
<1>14. CASE Terminate
  BY <1>14
     DEF Terminate, Fault
<1>15. CASE Restart
  BY <1>15
     DEF Restart, Fault
<1>16. CASE UNCHANGED vars
  BY <1>16
<1>17. QED
  BY <1>1, <1>2, <1>3, <1>4, <1>5, <1>6, <1>7, <1>8, <1>9, <1>10, <1>11, <1>12, <1>13,
     <1>14, <1>15, <1>16
     DEF Next, NodeNext, PodNext, PodUser

-----------------------------------------------------------------------------
(* The properties *)

LEMMA NextPInv ==
    ASSUME PInv, [Next]_vars
    PROVE  PInv'
BY NodesStep, PodsStep, SharedStep, NodesHeldStep, PodsHeldStep, StatusStep, PathsStep,
   TargetsStep
   DEF PInv, TypeOK

\* The inductive invariant holds in every behaviour.
THEOREM Invariance == Spec => []PInv
<1>1. Init => PInv
  BY InitPInv
<1>2. PInv /\ [Next]_vars => PInv'
  BY NextPInv
<1>3. QED
  BY <1>1, <1>2, PTL DEF Spec

\* Every variable of the two reconcilers holds what its declaration says.
THEOREM TypeCorrect == Spec => []TypeOK
<1>1. PInv => TypeOK
  BY DEF PInv
<1>2. QED
  BY <1>1, Invariance, PTL

\* A DataNode is available only if its own source was checked, however often its
\* name was deleted and created anew.
THEOREM AvailableIsChecked == Spec => []AvailableWasChecked
<1>1. PInv => AvailableWasChecked
  BY DEF PInv, StatusChecked
<1>2. QED
  BY <1>1, Invariance, PTL

\* The object that a reconciliation writes to, by name, is the one it began with.
THEOREM IncarnationStays == Spec => []SameIncarnation
<1>1. PInv => SameIncarnation
  BY DEF PInv, NodesHeld, PodsHeld, SameIncarnation
<1>2. QED
  BY <1>1, Invariance, PTL

\* No DataPod gets a path that was made for another one.
THEOREM PathsAreOwn == Spec => []PathIsOwn
<1>1. PInv => PathIsOwn
  BY DEF PInv, PathsOwn, Own, PathIsOwn
<1>2. QED
  BY <1>1, Invariance, PTL

-----------------------------------------------------------------------------
(* A reconciliation that is through has patched its object or changed nothing *)

PatchedOnly ==
    \A q \in Pods :
        pPc[q] = "patch" /\ pPc'[q] = "idle" => pod'[q] = pod[q] \/ PatchPod(q)

LEMMA PatchedOnlyStep ==
    ASSUME PInv, [Next]_vars
    PROVE  PatchedOnly
<1> USE DEF PInv, TypeOK, PodsTyped, PatchedOnly, vars, nodeVars, podVars, nodeLocals,
            podLocals, shared
<1>1. ASSUME NEW n \in Nodes, NodeWork(n) /\ UNCHANGED podVars
      PROVE  PatchedOnly
  <2>1. CASE AddNodeFinalizer(n)
    BY <2>1, <1>1
       DEF AddNodeFinalizer
  <2>2. CASE ReconcileNode(n)
    BY <2>2, <1>1
       DEF ReconcileNode
  <2>3. CASE CheckSource(n)
    BY <2>3, <1>1
       DEF CheckSource
  <2>4. CASE CheckFails(n)
    BY <2>4, <1>1
       DEF CheckFails, NodeEnd
  <2>5. CASE PatchStatus(n)
    BY <2>5, <1>1
       DEF PatchStatus, NodeEnd
  <2>6. CASE CleanupNode(n)
    BY <2>6, <1>1
       DEF CleanupNode
  <2>7. QED
    BY <1>1, <2>1, <2>2, <2>3, <2>4, <2>5, <2>6 DEF NodeWork
<1>2. ASSUME NEW n \in Nodes, NodeFails(n) /\ UNCHANGED podVars
      PROVE  PatchedOnly
  BY <1>2
     DEF NodeFails, NodeEnd, Fault
<1>3. ASSUME NEW n \in Nodes, ObserveNode(n) /\ UNCHANGED podVars
      PROVE  PatchedOnly
  BY <1>3
     DEF ObserveNode
<1>4. ASSUME NEW n \in Nodes, CreateNode(n) /\ UNCHANGED podVars
      PROVE  PatchedOnly
  BY <1>4
     DEF CreateNode, NewUid
<1>5. ASSUME NEW n \in Nodes, DeleteNode(n) /\ UNCHANGED podVars
      PROVE  PatchedOnly
  BY <1>5
     DEF DeleteNode, Fault
<1>6. ASSUME NEW n \in Nodes, SourceChanges(n) /\ UNCHANGED podVars
      PROVE  PatchedOnly
  BY <1>6
     DEF SourceChanges, Fault
<1>7. ASSUME NEW p \in Pods, PodWork(p)
      PROVE  PatchedOnly
  <2>1. CASE AddPodFinalizer(p)
    BY <2>1
       DEF AddPodFinalizer
  <2>2. CASE ReconcilePod(p)
    BY <2>2
       DEF ReconcilePod, View
  <2>3. CASE CleanupPod(p)
    BY <2>3
       DEF CleanupPod
  <2>4. CASE GetPod(p)
    BY <2>4
       DEF GetPod
  <2>5. CASE FindByRef(p)
    BY <2>5
       DEF FindByRef, Found
  <2>6. CASE FindBySelector(p)
    BY <2>6
       DEF FindBySelector, Found
  <2>7. CASE FindFails(p)
    BY <2>7
       DEF FindFails, PodEnd
  <2>8. CASE Panic(p)
    BY <2>8
       DEF Panic
  <2>9. CASE PatchPod(p)
    BY <2>9
       DEF PatchPod, PodEnd
  <2>10. QED
    BY <1>7, <2>1, <2>2, <2>3, <2>4, <2>5, <2>6, <2>7, <2>8, <2>9 DEF PodWork
<1>8. ASSUME NEW p \in Pods, PodFails(p)
      PROVE  PatchedOnly
  BY <1>8
     DEF PodFails, PodEnd, Fault
<1>9. ASSUME NEW p \in Pods, ObservePod(p)
      PROVE  PatchedOnly
  BY <1>9
     DEF ObservePod
<1>10. ASSUME NEW p \in Pods, DeletePod(p)
      PROVE  PatchedOnly
  BY <1>10
     DEF DeletePod, Fault
<1>11. ASSUME NEW p \in Pods, Collect(p)
      PROVE  PatchedOnly
  BY <1>11
     DEF Collect, Orphan
<1>12. ASSUME NEW p \in Pods, NEW spec \in Specs, CreatePod(p, spec)
      PROVE  PatchedOnly
  BY <1>12
     DEF CreatePod, NewUid
<1>13. ASSUME NEW p \in Pods, NEW spec \in Specs, EditPod(p, spec)
      PROVE  PatchedOnly
  BY <1>13
     DEF EditPod, Fault
<1>14. CASE Terminate
  BY <1>14
     DEF Terminate, Fault
<1>15. CASE Restart
  BY <1>15
     DEF Restart, Fault
<1>16. CASE UNCHANGED vars
  BY <1>16
<1>17. QED
  BY <1>1, <1>2, <1>3, <1>4, <1>5, <1>6, <1>7, <1>8, <1>9, <1>10, <1>11, <1>12, <1>13,
     <1>14, <1>15, <1>16
     DEF Next, NodeNext, PodNext, PodUser

\* A reconciliation that saw the path and the reference the object has changes
\* neither.
THEOREM SeenEditsAreKept == Spec => SeenEditsStay
<1> DEFINE Kept ==
      \A p \in Pods :
        /\ pPc[p] = "patch" /\ pPc'[p] = "idle"
        /\ pod[p] # NULL /\ pod'[p] # NULL
        /\ pSelf[p].path = pod[p].path
        /\ pSelf[p].ref = pod[p].ref
        => /\ pod[p].path # NULL => pod'[p].path = pod[p].path
           /\ pod[p].ref # NULL => pod'[p].ref = pod[p].ref
<1>1. PInv /\ [Next]_vars => Kept
  <2> SUFFICES ASSUME PInv, [Next]_vars, NEW p \in Pods,
                      pPc[p] = "patch", pPc'[p] = "idle", pod[p] # NULL,
                      pSelf[p].path = pod[p].path, pSelf[p].ref = pod[p].ref
               PROVE  /\ pod[p].path # NULL => pod'[p].path = pod[p].path
                      /\ pod[p].ref # NULL => pod'[p].ref = pod[p].ref
    OBVIOUS
  <2>1. CASE pod'[p] = pod[p]
    BY <2>1
  <2>2. CASE PatchPod(p)
    <3>1. pod'[p] = Applied(p, pod[p])
      BY <2>2 DEF PatchPod, PInv, TypeOK, PodsTyped
    <3>2. pod[p] \in DataPod
      BY DEF PInv, TypeOK, PodsTyped
    <3>3. pod'[p].path = NewPath(pSelf[p]) /\ pod'[p].ref = target[p].name
      BY <3>1, <3>2 DEF Applied, DataPod
    <3>4. pSelf[p].ref # NULL => target[p].name = pSelf[p].ref
      BY DEF PInv, TargetsFound
    <3>5. QED
      BY <3>3, <3>4 DEF NewPath
  <2>3. QED
    BY <2>1, <2>2, PatchedOnlyStep DEF PatchedOnly
<1>2. QED
  BY <1>1, Invariance, PTL DEF Spec, SeenEditsStay

=============================================================================
