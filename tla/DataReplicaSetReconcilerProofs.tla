------------------- MODULE DataReplicaSetReconcilerProofs -------------------
(***************************************************************************)
(* Proofs about DataReplicaSetReconciler, for every value of its           *)
(* constants: any number of sets, DataPods, DataNodes, replicas,           *)
(* processes, passes and faults.                                           *)
(***************************************************************************)
EXTENDS DataReplicaSetReconciler, FiniteSetTheorems, TLAPS

(***************************************************************************)
(* The inductive invariant.  Every copy of an object, old as it may be, is *)
(* covered by what its set ever asked for.  What a pass made lies below    *)
(* next, on DataNodes that are no longer free.  As long as the set exists, *)
(* all that a pass made is still there, and no two passes or pods have an  *)
(* index in common: the API server refused the second one the name.        *)
(***************************************************************************)
Covers(r) == r # NULL => asked[r.uid] # NULL /\ r.replicas <= asked[r.uid]

Covered ==
    /\ Covers(set)
    /\ \A w \in Workers : Covers(cache[w]) /\ Covers(self[w])
    /\ \A y \in pods : asked[y.set] # NULL
    /\ ReplicasAsAsked

Creating == {"replica", "claim", "pod"}

Pending(w, t) == pc[w] = "claim" /\ t.index = next[w]

LocalOK ==
    \A w \in Workers :
        /\ pc[w] # "idle" => self[w] # NULL
        /\ pc[w] \in {"node", "nodes"} \cup Creating => from[w] # NULL
        /\ pc[w] \in {"source", "node", "nodes"} \cup Creating => first[w] \in Indices
        /\ pc[w] \in Creating => from[w] \notin free[w]
        /\ pc[w] = "claim" => next[w] < self[w].replicas
        /\ pc[w] \notin Creating => made[w] = {}

MadeOK ==
    \A w \in Workers :
        /\ \A t \in made[w] :
            /\ t.node # from[w]
            /\ t.node \notin free[w]
            /\ t.index < next[w] \/ Pending(w, t)
        /\ \A t, u \in made[w] : t.node = u.node <=> t.index = u.index

Lives(w) == self[w] # NULL /\ Exists(self[w].uid)

\* The replicas of passes and pods exist and no two of them share one.
Apart ==
    /\ \A w \in Workers : Lives(w) =>
        \A t \in made[w] : replica[self[w].uid][t.index] # NULL
    /\ \A y \in pods : Exists(y.set) =>
        \A t \in y.targets : replica[y.set][t.index] # NULL
    /\ \A w, v \in Workers : w # v /\ Lives(w) /\ Lives(v) =>
        \A t \in made[w], u \in made[v] : t.index # u.index
    /\ \A w \in Workers, y \in pods : Lives(w) /\ Exists(y.set) =>
        \A t \in made[w], u \in y.targets : t.index # u.index
    /\ OneWriterPerReplica

HasClaims ==
    /\ \A w \in Workers : Lives(w) =>
        /\ \A t \in made[w] : ~Pending(w, t) => ClaimFor(w, t.index, t.node) \in claims
        /\ pc[w] = "pod" => ClaimFor(w, SOURCE, from[w]) \in claims
    /\ SyncPodHasItsClaims

IInv == TypeOK /\ Covered /\ LocalOK /\ MadeOK /\ Apart /\ HasClaims /\ SyncPodsSpread

LEMMA InitIInv == Init => IInv
BY ConstantsAssumption
   DEF Init, IInv, TypeOK, ObjectsTyped, WorkersTyped, Covered, Covers, ReplicasAsAsked, LocalOK,
       Creating, MadeOK, Apart, Lives, Exists, OneWriterPerReplica, HasClaims,
       SyncPodHasItsClaims, SyncPodsSpread, Steps, Replica

-----------------------------------------------------------------------------
(* Type correctness *)

LEMMA SelectedCount == \A r : Selected(r) \in Nat
<1> TAKE r
<1>1. IsFiniteSet(Sets \X Indices)
  <2>1. IsFiniteSet(Indices)
    BY ConstantsAssumption, FS_Interval DEF Indices
  <2>2. QED
    BY <2>1, ConstantsAssumption, FS_Product
<1>2. IsFiniteSet(SelectedReplicas(r)) /\ IsFiniteSet(SelectedOthers(r))
  <2>1. SelectedReplicas(r) \subseteq Sets \X Indices /\ SelectedOthers(r) \subseteq Others
    BY DEF SelectedReplicas, SelectedOthers
  <2>2. QED
    BY <1>1, <2>1, ConstantsAssumption, FS_Subset
<1>3. QED
  BY <1>2, FS_CardinalityType DEF Selected

\* A pass that goes on begins with an index below what the set asks for.
LEMMA ListStep ==
    ASSUME IInv, NEW w \in Workers, List(w)
    PROVE  \/ End(w)
           \/ /\ Selected(self[w]) \in Indices
              /\ first' = [first EXCEPT ![w] = Selected(self[w])]
              /\ next' = [next EXCEPT ![w] = Selected(self[w])]
              /\ Goto(w, "source")
              /\ UNCHANGED <<self, from, free, made>>
<1>1. self[w] \in ReplicaSet
  BY DEF IInv, TypeOK, WorkersTyped, LocalOK, List, ListCounting
<1>2. CASE Selected(self[w]) < self[w].replicas
  BY <1>1, <1>2, SelectedCount, ConstantsAssumption DEF ReplicaSet, Indices, List, ListCounting
<1>3. CASE ~(Selected(self[w]) < self[w].replicas)
  BY <1>3 DEF List, ListCounting
<1>4. QED
  BY <1>2, <1>3

LEMMA ReplicaPut ==
    ASSUME NEW f \in [Sets -> [Indices -> Replica \cup {NULL}]],
           NEW s \in Sets, NEW i \in Indices, NEW r \in Replica
    PROVE  [f EXCEPT ![s][i] = r] \in [Sets -> [Indices -> Replica \cup {NULL}]]
<1>1. [f[s] EXCEPT ![i] = r] \in [Indices -> Replica \cup {NULL}]
  OBVIOUS
<1>2. QED
  BY <1>1

LEMMA ObjectsStep ==
    ASSUME IInv, [Next]_vars
    PROVE  ObjectsTyped'
<1> USE DEF IInv, TypeOK, ObjectsTyped, objects, created, locals, counters
<1>1. ASSUME NEW w \in Workers, Work(w)
      PROVE  ObjectsTyped'
  <2>1. CASE AddFinalizer(w)
    BY <2>1
       DEF AddFinalizer, ReplicaSet
  <2>2. CASE Reconcile(w)
    BY <2>2
       DEF Reconcile, Goto
  <2>3. CASE Cleanup(w)
    BY <2>3
       DEF Cleanup, ReplicaSet
  <2>4. CASE List(w)
    BY <2>4
       DEF List, ListCounting, End, Goto
  <2>5. CASE GetSource(w)
    BY <2>5
       DEF GetSource, End, Goto
  <2>6. CASE GetNode(w)
    BY <2>6
       DEF GetNode, End, Goto
  <2>7. CASE ListNodes(w)
    BY <2>7, ConstantsAssumption
       DEF ListNodes, Goto
  <2>8. CASE CreateDataPod(w)
    <3>1. PICK n \in free[w] : replica' = [replica EXCEPT ![self[w].uid][next[w]] =
                         [node |-> n, labelled |-> FALSE, adopted |-> FALSE]]
      BY <2>8 DEF CreateDataPod
    <3>2. self[w] \in ReplicaSet /\ next[w] \in Indices /\ n \in Nodes
      BY <2>8, ConstantsAssumption
         DEF CreateDataPod, WorkersTyped, MoreReplicas, Indices, LocalOK, Creating, ReplicaSet
    <3>3. self[w].uid \in Sets
      BY <3>2 DEF ReplicaSet
    <3>4. [node |-> n, labelled |-> FALSE, adopted |-> FALSE] \in Replica
      BY <3>2 DEF Replica
    <3>5. replica' \in [Sets -> [Indices -> Replica \cup {NULL}]]
      BY <3>1, <3>2, <3>3, <3>4, ReplicaPut
    <3>6. QED
      BY <3>5, <2>8 DEF CreateDataPod
  <2>9. CASE AlreadyExists(w)
    BY <2>9
       DEF AlreadyExists, End, Goto
  <2>10. CASE CreateReplicaClaim(w)
    BY <2>10, ConstantsAssumption
       DEF CreateReplicaClaim, Goto, WorkersTyped, ClaimFor, Claim, Target, LocalOK,
           Creating, ReplicaSet
  <2>11. CASE CreateSourceClaim(w)
    BY <2>11, ConstantsAssumption
       DEF CreateSourceClaim, Goto, WorkersTyped, ClaimFor, Claim, LocalOK, Creating,
           ReplicaSet
  <2>12. CASE CreateSyncPod(w)
    BY <2>12, ConstantsAssumption
       DEF CreateSyncPod, End, Goto, WorkersTyped, Pod, LocalOK, Creating, ReplicaSet
  <2>14. QED
    BY <1>1, <2>1, <2>2, <2>3, <2>4, <2>5, <2>6, <2>7, <2>8, <2>9, <2>10, <2>11, <2>12
    DEF Work
<1>2. ASSUME NEW w \in Workers, Fail(w)
      PROVE  ObjectsTyped'
  BY <1>2
     DEF Fail, End, Goto, Fault
<1>3. ASSUME NEW w \in Workers, Observe(w)
      PROVE  ObjectsTyped'
  BY <1>3
     DEF Observe
<1>4. ASSUME NEW w \in Workers, Restart(w)
      PROVE  ObjectsTyped'
  BY <1>4
     DEF Restart, End, Goto, Fault
<1>5. ASSUME NEW w \in Workers, Panic(w)
      PROVE  ObjectsTyped'
  BY <1>5
     DEF Panic, End, Goto, Fault
<1>6. ASSUME NEW w \in Workers, Start(w)
      PROVE  ObjectsTyped'
  BY <1>6
     DEF Start, Change
<1>7. ASSUME NEW w \in Workers, Stop(w)
      PROVE  ObjectsTyped'
  BY <1>7
     DEF Stop
<1>8. ASSUME NEW s \in Sets, NEW k \in 0 .. MaxReplicas, NEW all \in BOOLEAN,
             Create(s, k, all)
      PROVE  ObjectsTyped'
  BY <1>8, ConstantsAssumption
     DEF Create, ReplicaSet
<1>9. CASE Delete
  BY <1>9
     DEF Delete, ReplicaSet
<1>10. ASSUME NEW k \in 0 .. MaxReplicas, Scale(k)
      PROVE  ObjectsTyped'
  BY <1>10, ConstantsAssumption
     DEF Scale, Change, ReplicaSet
<1>11. ASSUME NEW s \in Sets, NEW i \in Indices, Label(s, i)
      PROVE  ObjectsTyped'
  <2>0. replica[s][i] \in Replica
    BY <1>11 DEF Label
  <2>1. [replica[s][i] EXCEPT !.labelled = TRUE] \in Replica
    BY <2>0 DEF Replica
  <2>2. replica' = [replica EXCEPT ![s][i] = [replica[s][i] EXCEPT !.labelled = TRUE]]
    BY <1>11 DEF Label
  <2>3. replica' \in [Sets -> [Indices -> Replica \cup {NULL}]]
    BY <2>1, <2>2, ReplicaPut
  <2>4. QED
    BY <1>11, <2>3 DEF Label
<1>12. ASSUME NEW n \in Nodes, AddNode(n) \/ RemoveNode(n) \/ OwnSource(n)
      PROVE  ObjectsTyped'
  BY <1>12
     DEF AddNode, RemoveNode, OwnSource, Change
<1>13. ASSUME NEW o \in Others, NEW as \in {"none", "plain", "labelled"}, Mark(o, as)
      PROVE  ObjectsTyped'
  BY <1>13
     DEF Mark, Change
<1>14. ASSUME NEW s \in Sets, NEW i \in Indices, Adopt(s, i)
      PROVE  ObjectsTyped'
  <2>0. replica[s][i] \in Replica
    BY <1>14 DEF Adopt
  <2>1. [replica[s][i] EXCEPT !.adopted = TRUE] \in Replica
    BY <2>0 DEF Replica
  <2>2. replica' = [replica EXCEPT ![s][i] = [replica[s][i] EXCEPT !.adopted = TRUE]]
    BY <1>14 DEF Adopt
  <2>3. replica' \in [Sets -> [Indices -> Replica \cup {NULL}]]
    BY <2>1, <2>2, ReplicaPut
  <2>4. QED
    BY <1>14, <2>3 DEF Adopt
<1>15. ASSUME NEW s \in Sets, Collect(s)
      PROVE  ObjectsTyped'
  BY <1>15
     DEF Collect
<1>16. CASE UNCHANGED vars
  BY <1>16 DEF vars
<1>17. CASE EventsChange
  BY <1>17
     DEF EventsChange, Change
<1>18. QED
  BY <1>1, <1>2, <1>3, <1>4, <1>5, <1>6, <1>7, <1>8, <1>9, <1>10, <1>11, <1>12, <1>13,
     <1>14, <1>15, <1>16, <1>17 DEF Next, User, Cluster

LEMMA WorkersStep ==
    ASSUME IInv, [Next]_vars
    PROVE  WorkersTyped'
<1> USE DEF IInv, TypeOK, WorkersTyped, Steps, objects, created, locals, counters
<1>1. ASSUME NEW w \in Workers, Work(w)
      PROVE  WorkersTyped'
  <2>1. CASE AddFinalizer(w)
    BY <2>1
       DEF AddFinalizer
  <2>2. CASE Reconcile(w)
    BY <2>2
       DEF Reconcile, Goto
  <2>3. CASE Cleanup(w)
    BY <2>3
       DEF Cleanup
  <2>4. CASE List(w)
    <3>1. CASE End(w)
      BY <2>4, <3>1, ConstantsAssumption DEF List, ListCounting, End, Goto
    <3>2. CASE ~End(w)
      <4>1. /\ Selected(self[w]) \in Indices
            /\ first' = [first EXCEPT ![w] = Selected(self[w])]
            /\ next' = [next EXCEPT ![w] = Selected(self[w])]
            /\ Goto(w, "source")
            /\ UNCHANGED <<self, from, free, made>>
        BY <2>4, <3>2, ListStep
      <4>2. Selected(self[w]) \in 0 .. MaxReplicas
        BY <4>1, ConstantsAssumption DEF Indices
      <4>3. UNCHANGED <<alive, cache>>
        BY <2>4 DEF List, ListCounting
      <4> HIDE DEF Selected
      <4>4. QED
        BY <4>1, <4>2, <4>3 DEF Goto
    <3>3. QED
      BY <3>1, <3>2
  <2>5. CASE GetSource(w)
    <3>1. CASE End(w)
      BY <2>5, <3>1, ConstantsAssumption DEF GetSource, End, Goto
    <3>2. CASE Goto(w, "node")
      <4>1. source \in Nodes \cup {NULL}
        BY DEF ObjectsTyped
      <4>2. QED
        BY <2>5, <3>2, <4>1 DEF GetSource, End, Goto
    <3>3. QED
      BY <2>5, <3>1, <3>2 DEF GetSource
  <2>6. CASE GetNode(w)
    BY <2>6, ConstantsAssumption
       DEF GetNode, End, Goto
  <2>7. CASE ListNodes(w)
    BY <2>7, ConstantsAssumption
       DEF ListNodes, Goto
  <2>8. CASE CreateDataPod(w)
    BY <2>8, ConstantsAssumption
       DEF CreateDataPod, Goto, MoreReplicas, Indices, LocalOK, Creating, Target,
           ReplicaSet
  <2>9. CASE AlreadyExists(w)
    BY <2>9, ConstantsAssumption
       DEF AlreadyExists, End, Goto
  <2>10. CASE CreateReplicaClaim(w)
    BY <2>10, ConstantsAssumption
       DEF CreateReplicaClaim, Goto, LocalOK, Creating, ReplicaSet
  <2>11. CASE CreateSourceClaim(w)
    BY <2>11, ConstantsAssumption
       DEF CreateSourceClaim, Goto
  <2>12. CASE CreateSyncPod(w)
    BY <2>12, ConstantsAssumption
       DEF CreateSyncPod, End, Goto
  <2>14. QED
    BY <1>1, <2>1, <2>2, <2>3, <2>4, <2>5, <2>6, <2>7, <2>8, <2>9, <2>10, <2>11, <2>12
    DEF Work
<1>2. ASSUME NEW w \in Workers, Fail(w)
      PROVE  WorkersTyped'
  BY <1>2, ConstantsAssumption
     DEF Fail, End, Goto, Fault
<1>3. ASSUME NEW w \in Workers, Observe(w)
      PROVE  WorkersTyped'
  BY <1>3
     DEF Observe, ObjectsTyped
<1>4. ASSUME NEW w \in Workers, Restart(w)
      PROVE  WorkersTyped'
  BY <1>4, ConstantsAssumption
     DEF Restart, End, Goto, Fault, ObjectsTyped
<1>5. ASSUME NEW w \in Workers, Panic(w)
      PROVE  WorkersTyped'
  BY <1>5, ConstantsAssumption
     DEF Panic, End, Goto, Fault, ObjectsTyped
<1>6. ASSUME NEW w \in Workers, Start(w)
      PROVE  WorkersTyped'
  BY <1>6
     DEF Start, ObjectsTyped
<1>7. ASSUME NEW w \in Workers, Stop(w)
      PROVE  WorkersTyped'
  BY <1>7
     DEF Stop
<1>8. ASSUME NEW s \in Sets, NEW k \in 0 .. MaxReplicas, NEW all \in BOOLEAN,
             Create(s, k, all)
      PROVE  WorkersTyped'
  BY <1>8
     DEF Create
<1>9. CASE Delete
  BY <1>9
     DEF Delete
<1>10. ASSUME NEW k \in 0 .. MaxReplicas, Scale(k)
      PROVE  WorkersTyped'
  BY <1>10
     DEF Scale, Change
<1>11. ASSUME NEW s \in Sets, NEW i \in Indices, Label(s, i)
      PROVE  WorkersTyped'
  BY <1>11
     DEF Label, Change
<1>12. ASSUME NEW n \in Nodes, AddNode(n) \/ RemoveNode(n) \/ OwnSource(n)
      PROVE  WorkersTyped'
  BY <1>12
     DEF AddNode, RemoveNode, OwnSource, Change
<1>13. ASSUME NEW o \in Others, NEW as \in {"none", "plain", "labelled"}, Mark(o, as)
      PROVE  WorkersTyped'
  BY <1>13, ConstantsAssumption
     DEF Mark, Change
<1>14. ASSUME NEW s \in Sets, NEW i \in Indices, Adopt(s, i)
      PROVE  WorkersTyped'
  BY <1>14
     DEF Adopt
<1>15. ASSUME NEW s \in Sets, Collect(s)
      PROVE  WorkersTyped'
  BY <1>15
     DEF Collect
<1>16. CASE UNCHANGED vars
  BY <1>16 DEF vars
<1>17. CASE EventsChange
  BY <1>17, ConstantsAssumption
     DEF EventsChange, Change
<1>18. QED
  BY <1>1, <1>2, <1>3, <1>4, <1>5, <1>6, <1>7, <1>8, <1>9, <1>10, <1>11, <1>12, <1>13,
     <1>14, <1>15, <1>16, <1>17 DEF Next, User, Cluster

LEMMA CountersStep ==
    ASSUME IInv, [Next]_vars
    PROVE  faults' \in 0 .. MaxFaults /\ changes' \in 0 .. MaxFaults
<1> USE DEF counters
<1>1. faults \in 0 .. MaxFaults /\ changes \in 0 .. MaxFaults /\ MaxFaults \in Nat
  BY ConstantsAssumption DEF IInv, TypeOK
<1> DEFINE Same == UNCHANGED counters
           Counted == /\ faults + changes < MaxFaults
                      /\ \/ faults' = faults + 1 /\ changes' = changes
                         \/ changes' = changes + 1 /\ faults' = faults
<1>2. CASE Same
  BY <1>1, <1>2
<1>3. CASE Counted
  BY <1>1, <1>3
<1>4. CASE User
  BY <1>4, <1>2, <1>3 DEF User, Create, Delete, Scale, Label, Mark, EventsChange, AddNode,
                          RemoveNode, Change
<1>5. CASE Cluster
  BY <1>5, <1>2, <1>3 DEF Cluster, OwnSource, Adopt, Collect, Change
<1>6. ASSUME NEW w \in Workers, Work(w)
      PROVE  Same
  BY <1>6 DEF Work, AddFinalizer, Reconcile, Cleanup, List, ListCounting, GetSource, GetNode,
              ListNodes, CreateDataPod, AlreadyExists, CreateReplicaClaim, CreateSourceClaim,
              CreateSyncPod
<1>7. ASSUME NEW w \in Workers,
             Fail(w) \/ Observe(w) \/ Restart(w) \/ Panic(w) \/ Start(w) \/ Stop(w)
      PROVE  Same \/ Counted
  BY <1>7 DEF Fail, Observe, Restart, Panic, Start, Stop, Fault, Change
<1>8. QED
  BY <1>2, <1>3, <1>4, <1>5, <1>6, <1>7 DEF Next, vars

-----------------------------------------------------------------------------
(* What every copy of an object asks for, its set asked for *)

LEMMA CoveredStep ==
    ASSUME IInv, [Next]_vars
    PROVE  Covered'
<1> USE DEF IInv, TypeOK, ObjectsTyped, WorkersTyped, Covered, Covers, ReplicasAsAsked,
            objects, created, locals, counters
<1>1. ASSUME NEW w \in Workers, Work(w)
      PROVE  Covered'
  <2>1. CASE AddFinalizer(w)
    BY <2>1, ConstantsAssumption
       DEF AddFinalizer, ReplicaSet
  <2>2. CASE Reconcile(w)
    BY <2>2, ConstantsAssumption
       DEF Reconcile, Goto
  <2>3. CASE Cleanup(w)
    BY <2>3, ConstantsAssumption
       DEF Cleanup, ReplicaSet
  <2>4. CASE List(w)
    BY <2>4, ConstantsAssumption
       DEF List, ListCounting, End, Goto
  <2>5. CASE GetSource(w)
    BY <2>5, ConstantsAssumption
       DEF GetSource, End, Goto
  <2>6. CASE GetNode(w)
    BY <2>6, ConstantsAssumption
       DEF GetNode, End, Goto
  <2>7. CASE ListNodes(w)
    BY <2>7, ConstantsAssumption
       DEF ListNodes, Goto
  <2>8. CASE CreateDataPod(w)
    <3>1. PICK n \in free[w] :
            replica' = [replica EXCEPT ![self[w].uid][next[w]] =
                           [node |-> n, labelled |-> FALSE, adopted |-> FALSE]]
      BY <2>8 DEF CreateDataPod
    <3>2. /\ self[w] \in ReplicaSet /\ self[w].uid \in Sets /\ self[w] # NULL
          /\ next[w] \in Indices /\ next[w] < self[w].replicas
      BY <2>8, ConstantsAssumption
         DEF CreateDataPod, MoreReplicas, LocalOK, Indices, ReplicaSet, Creating
    <3>3. asked[self[w].uid] # NULL /\ next[w] < asked[self[w].uid]
      BY <3>2, ConstantsAssumption DEF ReplicaSet, Indices
    <3>4. UNCHANGED <<asked, set, cache, self, pods>>
      BY <2>8 DEF CreateDataPod
    <3>5. \A s \in Sets, i \in Indices : s # self[w].uid \/ i # next[w] =>
            replica'[s][i] = replica[s][i]
      BY <3>1, <3>2
    <3>6. QED
      BY <3>3, <3>4, <3>5
  <2>9. CASE AlreadyExists(w)
    BY <2>9, ConstantsAssumption
       DEF AlreadyExists, End, Goto
  <2>10. CASE CreateReplicaClaim(w)
    BY <2>10, ConstantsAssumption
       DEF CreateReplicaClaim, Goto
  <2>11. CASE CreateSourceClaim(w)
    BY <2>11, ConstantsAssumption
       DEF CreateSourceClaim, Goto
  <2>12. CASE CreateSyncPod(w)
    BY <2>12, ConstantsAssumption
       DEF CreateSyncPod, End, Goto, LocalOK, Creating, ReplicaSet
  <2>14. QED
    BY <1>1, <2>1, <2>2, <2>3, <2>4, <2>5, <2>6, <2>7, <2>8, <2>9, <2>10, <2>11, <2>12
    DEF Work
<1>2. ASSUME NEW w \in Workers, Fail(w)
      PROVE  Covered'
  BY <1>2, ConstantsAssumption
     DEF Fail, End, Goto, Fault
<1>3. ASSUME NEW w \in Workers, Observe(w)
      PROVE  Covered'
  BY <1>3, ConstantsAssumption
     DEF Observe
<1>4. ASSUME NEW w \in Workers, Restart(w)
      PROVE  Covered'
  BY <1>4, ConstantsAssumption
     DEF Restart, End, Goto, Fault
<1>5. ASSUME NEW w \in Workers, Panic(w)
      PROVE  Covered'
  BY <1>5, ConstantsAssumption
     DEF Panic, End, Goto, Fault
<1>6. ASSUME NEW w \in Workers, Start(w)
      PROVE  Covered'
  BY <1>6, ConstantsAssumption
     DEF Start, Change
<1>7. ASSUME NEW w \in Workers, Stop(w)
      PROVE  Covered'
  BY <1>7, ConstantsAssumption
     DEF Stop
<1>8. ASSUME NEW s \in Sets, NEW k \in 0 .. MaxReplicas, NEW all \in BOOLEAN,
             Create(s, k, all)
      PROVE  Covered'
  BY <1>8, ConstantsAssumption
     DEF Create, ReplicaSet
<1>9. CASE Delete
  BY <1>9, ConstantsAssumption
     DEF Delete, ReplicaSet
<1>10. ASSUME NEW k \in 0 .. MaxReplicas, Scale(k)
      PROVE  Covered'
  <2>1. set \in ReplicaSet /\ set.uid \in Sets /\ asked[set.uid] \in 0 .. MaxReplicas
    BY <1>10 DEF Scale, ReplicaSet
  <2>2. asked' = [asked EXCEPT ![set.uid] =
                     IF asked[set.uid] < k THEN k ELSE asked[set.uid]]
    BY <1>10 DEF Scale
  <2>3. \A x \in Sets : asked[x] # NULL => asked'[x] # NULL /\ asked[x] <= asked'[x]
    BY <2>1, <2>2, ConstantsAssumption
  <2>4. asked[set.uid] # NULL /\ asked'[set.uid] \in Nat /\ k <= asked'[set.uid]
    BY <2>1, <2>2, ConstantsAssumption
  <2>5. set' = [set EXCEPT !.replicas = k]
    BY <1>10 DEF Scale
  <2>6. set'.uid = set.uid /\ set'.replicas = k
    BY <2>1, <2>5 DEF ReplicaSet
  <2>7. Covers(set)'
    BY <2>3, <2>4, <2>6, ConstantsAssumption
  <2>8. ASSUME NEW r \in ReplicaSet \cup {NULL}, Covers(r)
        PROVE  r # NULL => asked'[r.uid] # NULL /\ r.replicas <= asked'[r.uid]
    <3>1. CASE r # NULL
      <4>1. r.uid \in Sets /\ r.replicas \in Nat
        BY <3>1, ConstantsAssumption DEF ReplicaSet
      <4>2. asked[r.uid] \in Nat /\ asked'[r.uid] \in Nat
        BY <2>1, <2>2, <2>8, <3>1, <4>1, ConstantsAssumption
      <4>3. QED
        BY <2>3, <2>8, <3>1, <4>1, <4>2
    <3>2. QED
      BY <3>1
  <2>9. cache' = cache /\ self' = self /\ pods' = pods /\ replica' = replica
    BY <1>10 DEF Scale, created
  <2>10. \A w \in Workers : Covers(cache[w])' /\ Covers(self[w])'
    BY <2>8, <2>9
  <2>11. \A y \in pods' : asked'[y.set] # NULL
    BY <2>3, <2>9 DEF Pod
  <2>12. ReplicasAsAsked'
    <3>1. SUFFICES ASSUME NEW s \in Sets, NEW i \in Indices, replica[s][i] # NULL
                   PROVE  asked'[s] # NULL /\ i < asked'[s]
      BY <2>9
    <3>2. asked[s] \in Nat /\ asked'[s] \in Nat /\ i \in Int
      BY <2>1, <2>2, <3>1, ConstantsAssumption DEF Indices
    <3>3. QED
      BY <2>3, <3>1, <3>2
  <2>13. QED
    BY <2>7, <2>10, <2>11, <2>12
<1>11. ASSUME NEW s \in Sets, NEW i \in Indices, Label(s, i)
      PROVE  Covered'
  BY <1>11, ConstantsAssumption
     DEF Label, Change
<1>12. ASSUME NEW n \in Nodes, AddNode(n) \/ RemoveNode(n) \/ OwnSource(n)
      PROVE  Covered'
  BY <1>12, ConstantsAssumption
     DEF AddNode, RemoveNode, OwnSource, Change
<1>13. ASSUME NEW o \in Others, NEW as \in {"none", "plain", "labelled"}, Mark(o, as)
      PROVE  Covered'
  BY <1>13, ConstantsAssumption
     DEF Mark, Change
<1>14. ASSUME NEW s \in Sets, NEW i \in Indices, Adopt(s, i)
      PROVE  Covered'
  BY <1>14, ConstantsAssumption
     DEF Adopt
<1>15. ASSUME NEW s \in Sets, Collect(s)
      PROVE  Covered'
  BY <1>15, ConstantsAssumption
     DEF Collect
<1>16. CASE UNCHANGED vars
  BY <1>16 DEF vars
<1>17. CASE EventsChange
  BY <1>17, ConstantsAssumption
     DEF EventsChange, Change
<1>18. QED
  BY <1>1, <1>2, <1>3, <1>4, <1>5, <1>6, <1>7, <1>8, <1>9, <1>10, <1>11, <1>12, <1>13,
     <1>14, <1>15, <1>16, <1>17 DEF Next, User, Cluster

-----------------------------------------------------------------------------
(* What a worker knows of its pass *)

LEMMA LocalStep ==
    ASSUME IInv, [Next]_vars
    PROVE  LocalOK'
<1> USE DEF IInv, TypeOK, WorkersTyped, LocalOK, Creating, objects, created, locals,
            counters
<1>1. ASSUME NEW w \in Workers, Work(w)
      PROVE  LocalOK'
  <2>1. CASE AddFinalizer(w)
    BY <2>1, ConstantsAssumption
       DEF AddFinalizer
  <2>2. CASE Reconcile(w)
    BY <2>2, ConstantsAssumption
       DEF Reconcile, Goto
  <2>3. CASE Cleanup(w)
    BY <2>3, ConstantsAssumption
       DEF Cleanup
  <2>4. CASE List(w)
    <3>1. CASE End(w)
      BY <2>4, <3>1, ConstantsAssumption DEF List, ListCounting, End, Goto
    <3>2. CASE ~End(w)
      <4>1. /\ Selected(self[w]) \in Indices
            /\ first' = [first EXCEPT ![w] = Selected(self[w])]
            /\ Goto(w, "source")
            /\ UNCHANGED <<self, from, free, made>>
        BY <2>4, <3>2, ListStep
      <4>2. pc[w] = "list"
        BY <2>4 DEF List, ListCounting
      <4>3. next' = [next EXCEPT ![w] = Selected(self[w])]
        BY <2>4, <3>2, ListStep
      <4> HIDE DEF Selected
      <4>4. QED
        BY <4>1, <4>2, <4>3 DEF Goto
    <3>3. QED
      BY <3>1, <3>2
  <2>5. CASE GetSource(w)
    BY <2>5, ConstantsAssumption
       DEF GetSource, End, Goto
  <2>6. CASE GetNode(w)
    BY <2>6, ConstantsAssumption
       DEF GetNode, End, Goto
  <2>7. CASE ListNodes(w)
    BY <2>7, ConstantsAssumption
       DEF ListNodes, Goto, ObjectsTyped
  <2>8. CASE CreateDataPod(w)
    BY <2>8, ConstantsAssumption
       DEF CreateDataPod, Goto, MoreReplicas
  <2>9. CASE AlreadyExists(w)
    BY <2>9, ConstantsAssumption
       DEF AlreadyExists, End, Goto
  <2>10. CASE CreateReplicaClaim(w)
    BY <2>10, ConstantsAssumption
       DEF CreateReplicaClaim, Goto, ReplicaSet
  <2>11. CASE CreateSourceClaim(w)
    BY <2>11, ConstantsAssumption
       DEF CreateSourceClaim, Goto
  <2>12. CASE CreateSyncPod(w)
    BY <2>12, ConstantsAssumption
       DEF CreateSyncPod, End, Goto
  <2>14. QED
    BY <1>1, <2>1, <2>2, <2>3, <2>4, <2>5, <2>6, <2>7, <2>8, <2>9, <2>10, <2>11, <2>12
    DEF Work
<1>2. ASSUME NEW w \in Workers, Fail(w)
      PROVE  LocalOK'
  BY <1>2, ConstantsAssumption
     DEF Fail, End, Goto, Fault
<1>3. ASSUME NEW w \in Workers, Observe(w)
      PROVE  LocalOK'
  BY <1>3, ConstantsAssumption
     DEF Observe
<1>4. ASSUME NEW w \in Workers, Restart(w)
      PROVE  LocalOK'
  BY <1>4, ConstantsAssumption
     DEF Restart, End, Goto, Fault
<1>5. ASSUME NEW w \in Workers, Panic(w)
      PROVE  LocalOK'
  BY <1>5, ConstantsAssumption
     DEF Panic, End, Goto, Fault
<1>6. ASSUME NEW w \in Workers, Start(w)
      PROVE  LocalOK'
  BY <1>6, ConstantsAssumption
     DEF Start, Change
<1>7. ASSUME NEW w \in Workers, Stop(w)
      PROVE  LocalOK'
  BY <1>7, ConstantsAssumption
     DEF Stop
<1>8. ASSUME NEW s \in Sets, NEW k \in 0 .. MaxReplicas, NEW all \in BOOLEAN,
             Create(s, k, all)
      PROVE  LocalOK'
  BY <1>8, ConstantsAssumption
     DEF Create
<1>9. CASE Delete
  BY <1>9, ConstantsAssumption
     DEF Delete
<1>10. ASSUME NEW k \in 0 .. MaxReplicas, Scale(k)
      PROVE  LocalOK'
  BY <1>10, ConstantsAssumption
     DEF Scale, Change
<1>11. ASSUME NEW s \in Sets, NEW i \in Indices, Label(s, i)
      PROVE  LocalOK'
  BY <1>11, ConstantsAssumption
     DEF Label, Change
<1>12. ASSUME NEW n \in Nodes, AddNode(n) \/ RemoveNode(n) \/ OwnSource(n)
      PROVE  LocalOK'
  BY <1>12, ConstantsAssumption
     DEF AddNode, RemoveNode, OwnSource, Change
<1>13. ASSUME NEW o \in Others, NEW as \in {"none", "plain", "labelled"}, Mark(o, as)
      PROVE  LocalOK'
  BY <1>13, ConstantsAssumption
     DEF Mark, Change
<1>14. ASSUME NEW s \in Sets, NEW i \in Indices, Adopt(s, i)
      PROVE  LocalOK'
  BY <1>14, ConstantsAssumption
     DEF Adopt
<1>15. ASSUME NEW s \in Sets, Collect(s)
      PROVE  LocalOK'
  BY <1>15, ConstantsAssumption
     DEF Collect
<1>16. CASE UNCHANGED vars
  BY <1>16 DEF vars
<1>17. CASE EventsChange
  BY <1>17, ConstantsAssumption
     DEF EventsChange, Change
<1>18. QED
  BY <1>1, <1>2, <1>3, <1>4, <1>5, <1>6, <1>7, <1>8, <1>9, <1>10, <1>11, <1>12, <1>13,
     <1>14, <1>15, <1>16, <1>17 DEF Next, User, Cluster

LEMMA MadeStep ==
    ASSUME IInv, [Next]_vars
    PROVE  MadeOK'
<1> USE DEF IInv, TypeOK, WorkersTyped, MadeOK, Pending, objects, created, locals,
            counters
<1>1. ASSUME NEW w \in Workers, Work(w)
      PROVE  MadeOK'
  <2>1. CASE AddFinalizer(w)
    BY <2>1, ConstantsAssumption
       DEF AddFinalizer
  <2>2. CASE Reconcile(w)
    BY <2>2, ConstantsAssumption
       DEF Reconcile, Goto, End, Goto, LocalOK, Creating
  <2>3. CASE Cleanup(w)
    BY <2>3, ConstantsAssumption
       DEF Cleanup
  <2>4. CASE List(w)
    BY <2>4, ConstantsAssumption
       DEF List, ListCounting, End, Goto, End, Goto, LocalOK, Creating
  <2>5. CASE GetSource(w)
    BY <2>5, ConstantsAssumption
       DEF GetSource, End, Goto, End, Goto, LocalOK, Creating
  <2>6. CASE GetNode(w)
    BY <2>6, ConstantsAssumption
       DEF GetNode, End, Goto, End, Goto, LocalOK, Creating
  <2>7. CASE ListNodes(w)
    BY <2>7, ConstantsAssumption
       DEF ListNodes, Goto, LocalOK, Creating, MoreReplicas, Target, ReplicaSet, Indices
  <2>8. CASE CreateDataPod(w)
    BY <2>8, ConstantsAssumption
       DEF CreateDataPod, Goto, LocalOK, Creating, MoreReplicas, Target, ReplicaSet,
           Indices
  <2>9. CASE AlreadyExists(w)
    BY <2>9, ConstantsAssumption
       DEF AlreadyExists, End, Goto
  <2>10. CASE CreateReplicaClaim(w)
    BY <2>10, ConstantsAssumption
       DEF CreateReplicaClaim, Goto, LocalOK, Creating, MoreReplicas, Target,
           ReplicaSet, Indices
  <2>11. CASE CreateSourceClaim(w)
    BY <2>11, ConstantsAssumption
       DEF CreateSourceClaim, Goto, LocalOK, Creating, MoreReplicas, Target, ReplicaSet,
           Indices
  <2>12. CASE CreateSyncPod(w)
    BY <2>12, ConstantsAssumption
       DEF CreateSyncPod, End, Goto
  <2>14. QED
    BY <1>1, <2>1, <2>2, <2>3, <2>4, <2>5, <2>6, <2>7, <2>8, <2>9, <2>10, <2>11, <2>12
    DEF Work
<1>2. ASSUME NEW w \in Workers, Fail(w)
      PROVE  MadeOK'
  BY <1>2, ConstantsAssumption
     DEF Fail, End, Goto, Fault
<1>3. ASSUME NEW w \in Workers, Observe(w)
      PROVE  MadeOK'
  BY <1>3, ConstantsAssumption
     DEF Observe
<1>4. ASSUME NEW w \in Workers, Restart(w)
      PROVE  MadeOK'
  BY <1>4, ConstantsAssumption
     DEF Restart, End, Goto, Fault
<1>5. ASSUME NEW w \in Workers, Panic(w)
      PROVE  MadeOK'
  BY <1>5, ConstantsAssumption
     DEF Panic, End, Goto, Fault
<1>6. ASSUME NEW w \in Workers, Start(w)
      PROVE  MadeOK'
  BY <1>6, ConstantsAssumption
     DEF Start, Change
<1>7. ASSUME NEW w \in Workers, Stop(w)
      PROVE  MadeOK'
  BY <1>7, ConstantsAssumption
     DEF Stop
<1>8. ASSUME NEW s \in Sets, NEW k \in 0 .. MaxReplicas, NEW all \in BOOLEAN,
             Create(s, k, all)
      PROVE  MadeOK'
  BY <1>8, ConstantsAssumption
     DEF Create
<1>9. CASE Delete
  BY <1>9, ConstantsAssumption
     DEF Delete
<1>10. ASSUME NEW k \in 0 .. MaxReplicas, Scale(k)
      PROVE  MadeOK'
  BY <1>10, ConstantsAssumption
     DEF Scale, Change
<1>11. ASSUME NEW s \in Sets, NEW i \in Indices, Label(s, i)
      PROVE  MadeOK'
  BY <1>11, ConstantsAssumption
     DEF Label, Change
<1>12. ASSUME NEW n \in Nodes, AddNode(n) \/ RemoveNode(n) \/ OwnSource(n)
      PROVE  MadeOK'
  BY <1>12, ConstantsAssumption
     DEF AddNode, RemoveNode, OwnSource, Change
<1>13. ASSUME NEW o \in Others, NEW as \in {"none", "plain", "labelled"}, Mark(o, as)
      PROVE  MadeOK'
  BY <1>13, ConstantsAssumption
     DEF Mark, Change
<1>14. ASSUME NEW s \in Sets, NEW i \in Indices, Adopt(s, i)
      PROVE  MadeOK'
  BY <1>14, ConstantsAssumption
     DEF Adopt
<1>15. ASSUME NEW s \in Sets, Collect(s)
      PROVE  MadeOK'
  BY <1>15, ConstantsAssumption
     DEF Collect
<1>16. CASE UNCHANGED vars
  BY <1>16 DEF vars
<1>17. CASE EventsChange
  BY <1>17, ConstantsAssumption
     DEF EventsChange, Change
<1>18. QED
  BY <1>1, <1>2, <1>3, <1>4, <1>5, <1>6, <1>7, <1>8, <1>9, <1>10, <1>11, <1>12, <1>13,
     <1>14, <1>15, <1>16, <1>17 DEF Next, User, Cluster

LEMMA SpreadStep ==
    ASSUME IInv, [Next]_vars
    PROVE  SyncPodsSpread'
<1> USE DEF IInv, SyncPodsSpread, objects, created, locals, counters
<1>1. ASSUME NEW w \in Workers, Work(w)
      PROVE  SyncPodsSpread'
  <2>1. CASE AddFinalizer(w)
    BY <2>1
       DEF AddFinalizer
  <2>2. CASE Reconcile(w)
    BY <2>2
       DEF Reconcile, Goto
  <2>3. CASE Cleanup(w)
    BY <2>3
       DEF Cleanup
  <2>4. CASE List(w)
    BY <2>4
       DEF List, ListCounting, End, Goto
  <2>5. CASE GetSource(w)
    BY <2>5
       DEF GetSource, End, Goto
  <2>6. CASE GetNode(w)
    BY <2>6
       DEF GetNode, End, Goto
  <2>7. CASE ListNodes(w)
    BY <2>7
       DEF ListNodes, Goto
  <2>8. CASE CreateDataPod(w)
    BY <2>8
       DEF CreateDataPod, Goto
  <2>9. CASE AlreadyExists(w)
    BY <2>9
       DEF AlreadyExists, End, Goto
  <2>10. CASE CreateReplicaClaim(w)
    BY <2>10
       DEF CreateReplicaClaim, Goto
  <2>11. CASE CreateSourceClaim(w)
    BY <2>11
       DEF CreateSourceClaim, Goto
  <2>12. CASE CreateSyncPod(w)
    BY <2>12
       DEF CreateSyncPod, End, Goto, MadeOK, LocalOK, Creating
  <2>14. QED
    BY <1>1, <2>1, <2>2, <2>3, <2>4, <2>5, <2>6, <2>7, <2>8, <2>9, <2>10, <2>11, <2>12
    DEF Work
<1>2. ASSUME NEW w \in Workers, Fail(w)
      PROVE  SyncPodsSpread'
  BY <1>2
     DEF Fail, End, Goto, Fault
<1>3. ASSUME NEW w \in Workers, Observe(w)
      PROVE  SyncPodsSpread'
  BY <1>3
     DEF Observe
<1>4. ASSUME NEW w \in Workers, Restart(w)
      PROVE  SyncPodsSpread'
  BY <1>4
     DEF Restart, End, Goto, Fault
<1>5. ASSUME NEW w \in Workers, Panic(w)
      PROVE  SyncPodsSpread'
  BY <1>5
     DEF Panic, End, Goto, Fault
<1>6. ASSUME NEW w \in Workers, Start(w)
      PROVE  SyncPodsSpread'
  BY <1>6
     DEF Start, Change
<1>7. ASSUME NEW w \in Workers, Stop(w)
      PROVE  SyncPodsSpread'
  BY <1>7
     DEF Stop
<1>8. ASSUME NEW s \in Sets, NEW k \in 0 .. MaxReplicas, NEW all \in BOOLEAN,
             Create(s, k, all)
      PROVE  SyncPodsSpread'
  BY <1>8
     DEF Create
<1>9. CASE Delete
  BY <1>9
     DEF Delete
<1>10. ASSUME NEW k \in 0 .. MaxReplicas, Scale(k)
      PROVE  SyncPodsSpread'
  BY <1>10
     DEF Scale, Change
<1>11. ASSUME NEW s \in Sets, NEW i \in Indices, Label(s, i)
      PROVE  SyncPodsSpread'
  BY <1>11
     DEF Label, Change
<1>12. ASSUME NEW n \in Nodes, AddNode(n) \/ RemoveNode(n) \/ OwnSource(n)
      PROVE  SyncPodsSpread'
  BY <1>12
     DEF AddNode, RemoveNode, OwnSource, Change
<1>13. ASSUME NEW o \in Others, NEW as \in {"none", "plain", "labelled"}, Mark(o, as)
      PROVE  SyncPodsSpread'
  BY <1>13
     DEF Mark, Change
<1>14. ASSUME NEW s \in Sets, NEW i \in Indices, Adopt(s, i)
      PROVE  SyncPodsSpread'
  BY <1>14
     DEF Adopt
<1>15. ASSUME NEW s \in Sets, Collect(s)
      PROVE  SyncPodsSpread'
  BY <1>15
     DEF Collect
<1>16. CASE UNCHANGED vars
  BY <1>16 DEF vars
<1>17. CASE EventsChange
  BY <1>17
     DEF EventsChange, Change
<1>18. QED
  BY <1>1, <1>2, <1>3, <1>4, <1>5, <1>6, <1>7, <1>8, <1>9, <1>10, <1>11, <1>12, <1>13,
     <1>14, <1>15, <1>16, <1>17 DEF Next, User, Cluster

-----------------------------------------------------------------------------
(* One writer per replica *)

LEMMA ApartStep ==
    ASSUME IInv, [Next]_vars
    PROVE  Apart'
<1> USE DEF IInv, TypeOK, WorkersTyped, Apart, Lives, Exists, OneWriterPerReplica,
            objects, created, locals, counters
<1>1. ASSUME NEW w \in Workers, Work(w)
      PROVE  Apart'
  <2>1. CASE AddFinalizer(w)
    BY <2>1
       DEF AddFinalizer, ObjectsTyped, ReplicaSet
  <2>2. CASE Reconcile(w)
    BY <2>2
       DEF Reconcile, Goto, LocalOK, Creating
  <2>3. CASE Cleanup(w)
    BY <2>3
       DEF Cleanup, ObjectsTyped, ReplicaSet
  <2>4. CASE List(w)
    <3>1. CASE End(w)
      BY <2>4, <3>1 DEF List, ListCounting, End, Goto
    <3>2. CASE Goto(w, "source")
      <4>1. UNCHANGED <<self, made, set, replica, pods>>
        BY <2>4, <3>2 DEF List, ListCounting, End, Goto
      <4>2. QED
        BY <4>1
    <3>3. QED
      BY <2>4, <3>1, <3>2 DEF List, ListCounting
  <2>5. CASE GetSource(w)
    <3>1. CASE End(w)
      <4>1. UNCHANGED <<set, replica, pods>>
        BY <2>5, <3>1 DEF GetSource
      <4>2. self' = [self EXCEPT ![w] = NULL] /\ made' = [made EXCEPT ![w] = {}]
        BY <3>1 DEF End
      <4>3. QED
        BY <4>1, <4>2
    <3>2. CASE Goto(w, "node")
      <4>1. UNCHANGED <<self, made, set, replica, pods>>
        BY <2>5, <3>2 DEF GetSource, End, Goto
      <4>2. QED
        BY <4>1
    <3>3. QED
      BY <2>5, <3>1, <3>2 DEF GetSource
  <2>6. CASE GetNode(w)
    <3>1. CASE End(w)
      BY <2>6, <3>1 DEF GetNode, End, Goto
    <3>2. CASE Goto(w, "nodes")
      <4>1. UNCHANGED <<self, made, set, replica, pods>>
        BY <2>6, <3>2 DEF GetNode, End, Goto
      <4>2. QED
        BY <4>1
    <3>3. QED
      BY <2>6, <3>1, <3>2 DEF GetNode
  <2>7. CASE ListNodes(w)
    BY <2>7
       DEF ListNodes, Goto
  <2>8. CASE CreateDataPod(w)
    <3>1. PICK n \in free[w] :
            /\ replica' = [replica EXCEPT ![self[w].uid][next[w]] =
                              [node |-> n, labelled |-> FALSE, adopted |-> FALSE]]
            /\ made' = [made EXCEPT ![w] = made[w] \cup {[index |-> next[w], node |-> n]}]
      BY <2>8 DEF CreateDataPod
    <3> DEFINE new == [index |-> next[w], node |-> n]
    <3>2. self[w] \in ReplicaSet /\ self[w].uid \in Sets /\ next[w] \in Indices
      BY <2>8, ConstantsAssumption
         DEF CreateDataPod, MoreReplicas, LocalOK, Indices, ReplicaSet
    <3>2a. [node |-> n, labelled |-> FALSE, adopted |-> FALSE] \in Replica
      BY <3>1 DEF Replica
    <3>3. [node |-> n, labelled |-> FALSE, adopted |-> FALSE] # NULL
      BY <3>2a, ConstantsAssumption DEF Replica
    <3>4. /\ \A x \in Sets, j \in Indices : replica[x][j] # NULL => replica'[x][j] # NULL
          /\ replica'[self[w].uid][next[w]] # NULL
          /\ replica[self[w].uid][next[w]] = NULL
      BY <2>8, <3>1, <3>2, <3>3 DEF ObjectsTyped, CreateDataPod
    <3>5. /\ \A v \in Workers : \A x \in made[v] : x.index \in Indices
          /\ \A y \in pods : y.set \in Sets /\ \A x \in y.targets : x.index \in Indices
          /\ \A v \in Workers : self[v] # NULL => self[v].uid \in Sets
      BY DEF ObjectsTyped, Pod, Target, ReplicaSet
    <3>6. UNCHANGED <<set, self, pods>>
      BY <2>8 DEF CreateDataPod
    <3>7. \A v \in Workers : \A x \in made'[v] : x \in made[v] \/ (v = w /\ x = new)
      BY <3>1
    <3>8. new.index = next[w]
      OBVIOUS
    <3>9. Lives(w) => \A v \in Workers : Lives(v) => \A x \in made[v] : x.index # next[w]
      BY <3>4
    <3>10. Lives(w) => \A y \in pods : Exists(y.set) => \A x \in y.targets : x.index # next[w]
      BY <3>4
    <3>10a. \A u, v \in Workers : u # v /\ Lives(u) /\ Lives(v) =>
             \A x \in made[u], z \in made[v] : x.index # z.index
      OBVIOUS
    <3>10b. \A v \in Workers, y \in pods : Lives(v) /\ Exists(y.set) =>
             \A x \in made[v], z \in y.targets : x.index # z.index
      OBVIOUS
    <3>11. /\ \A v \in Workers : Lives(v)' <=> Lives(v)
           /\ \A y \in pods : Exists(y.set)' <=> Exists(y.set)
      BY <3>6
    <3>12. \A v \in Workers : Lives(v) =>
             \A x \in made'[v] : replica'[self[v].uid][x.index] # NULL
      BY <3>4, <3>5, <3>7, <3>8
    <3>13. \A y \in pods : Exists(y.set) =>
             \A x \in y.targets : replica'[y.set][x.index] # NULL
      BY <3>4, <3>5
    <3> HIDE DEF new, Lives, Exists
    <3>14. \A u, v \in Workers : u # v /\ Lives(u) /\ Lives(v) =>
             \A x \in made'[u], z \in made'[v] : x.index # z.index
      BY <3>7, <3>8, <3>9, <3>10a
    <3>15. \A v \in Workers, y \in pods : Lives(v) /\ Exists(y.set) =>
             \A x \in made'[v], z \in y.targets : x.index # z.index
      BY <3>7, <3>8, <3>10, <3>10b
    <3>16. QED
      BY <3>6, <3>11, <3>12, <3>13, <3>14, <3>15
  <2>9. CASE AlreadyExists(w)
    BY <2>9
       DEF AlreadyExists, End, Goto
  <2>10. CASE CreateReplicaClaim(w)
    BY <2>10
       DEF CreateReplicaClaim, Goto
  <2>11. CASE CreateSourceClaim(w)
    BY <2>11
       DEF CreateSourceClaim, Goto
  <2>12. CASE CreateSyncPod(w)
    <3> DEFINE new == [set |-> self[w].uid, source |-> from[w], targets |-> made[w], first |-> first[w]]
    <3>1. pods' = pods \cup {new} /\ new.set = self[w].uid /\ new.targets = made[w]
      BY <2>12 DEF CreateSyncPod
    <3>2. /\ self' = [self EXCEPT ![w] = NULL]
          /\ made' = [made EXCEPT ![w] = {}]
          /\ UNCHANGED <<set, replica>>
      BY <2>12 DEF CreateSyncPod, End
    <3>3. self[w] # NULL
      BY <2>12 DEF CreateSyncPod, LocalOK
    <3> HIDE DEF new
    <3>4. QED
      BY <3>1, <3>2, <3>3
  <2>14. QED
    BY <1>1, <2>1, <2>2, <2>3, <2>4, <2>5, <2>6, <2>7, <2>8, <2>9, <2>10, <2>11, <2>12
    DEF Work
<1>2. ASSUME NEW w \in Workers, Fail(w)
      PROVE  Apart'
  BY <1>2
     DEF Fail, End, Goto, Fault
<1>3. ASSUME NEW w \in Workers, Observe(w)
      PROVE  Apart'
  BY <1>3
     DEF Observe
<1>4. ASSUME NEW w \in Workers, Restart(w)
      PROVE  Apart'
  BY <1>4
     DEF Restart, End, Goto, Fault
<1>5. ASSUME NEW w \in Workers, Panic(w)
      PROVE  Apart'
  BY <1>5
     DEF Panic, End, Goto, Fault
<1>6. ASSUME NEW w \in Workers, Start(w)
      PROVE  Apart'
  BY <1>6
     DEF Start, Change
<1>7. ASSUME NEW w \in Workers, Stop(w)
      PROVE  Apart'
  BY <1>7
     DEF Stop
<1>8. ASSUME NEW s \in Sets, NEW k \in 0 .. MaxReplicas, NEW all \in BOOLEAN,
             Create(s, k, all)
      PROVE  Apart'
  BY <1>8
     DEF Create, Covered, Covers
<1>9. CASE Delete
  BY <1>9
     DEF Delete, ObjectsTyped, ReplicaSet
<1>10. ASSUME NEW k \in 0 .. MaxReplicas, Scale(k)
      PROVE  Apart'
  BY <1>10
     DEF Scale, Change, ObjectsTyped, ReplicaSet
<1>11. ASSUME NEW s \in Sets, NEW i \in Indices, Label(s, i)
      PROVE  Apart'
  <2>1. [replica[s][i] EXCEPT !.labelled = TRUE] # NULL
    <3>1. replica[s][i] \in Replica
      BY <1>11 DEF Label, ObjectsTyped
    <3>2. [replica[s][i] EXCEPT !.labelled = TRUE] \in Replica
      BY <3>1 DEF Replica
    <3>3. QED
      BY <3>2, ConstantsAssumption DEF Replica
  <2>2. replica' = [replica EXCEPT ![s][i] = [replica[s][i] EXCEPT !.labelled = TRUE]]
    BY <1>11 DEF Label
  <2>3. \A x \in Sets, j \in Indices : replica[x][j] # NULL => replica'[x][j] # NULL
    BY <2>1, <2>2 DEF ObjectsTyped
  <2>4. \A w \in Workers : self[w] # NULL => self[w].uid \in Sets
    BY DEF ReplicaSet
  <2>5. /\ \A w \in Workers : \A x \in made[w] : x.index \in Indices
        /\ \A y \in pods : y.set \in Sets /\ \A x \in y.targets : x.index \in Indices
    BY DEF ObjectsTyped, Pod, Target
  <2>6. UNCHANGED <<set, self, made, pods>>
    BY <1>11 DEF Label
  <2>7. QED
    BY <2>3, <2>4, <2>5, <2>6
<1>12. ASSUME NEW n \in Nodes, AddNode(n) \/ RemoveNode(n) \/ OwnSource(n)
      PROVE  Apart'
  BY <1>12
     DEF AddNode, RemoveNode, OwnSource, Change
<1>13. ASSUME NEW o \in Others, NEW as \in {"none", "plain", "labelled"}, Mark(o, as)
      PROVE  Apart'
  BY <1>13
     DEF Mark, Change
<1>14. ASSUME NEW s \in Sets, NEW i \in Indices, Adopt(s, i)
      PROVE  Apart'
  <2>1. [replica[s][i] EXCEPT !.adopted = TRUE] # NULL
    <3>1. replica[s][i] \in Replica
      BY <1>14 DEF Adopt, ObjectsTyped
    <3>2. [replica[s][i] EXCEPT !.adopted = TRUE] \in Replica
      BY <3>1 DEF Replica
    <3>3. QED
      BY <3>2, ConstantsAssumption DEF Replica
  <2>2. replica' = [replica EXCEPT ![s][i] = [replica[s][i] EXCEPT !.adopted = TRUE]]
    BY <1>14 DEF Adopt
  <2>3. \A x \in Sets, j \in Indices : replica[x][j] # NULL => replica'[x][j] # NULL
    BY <2>1, <2>2 DEF ObjectsTyped
  <2>4. \A w \in Workers : self[w] # NULL => self[w].uid \in Sets
    BY DEF ReplicaSet
  <2>5. /\ \A w \in Workers : \A x \in made[w] : x.index \in Indices
        /\ \A y \in pods : y.set \in Sets /\ \A x \in y.targets : x.index \in Indices
    BY DEF ObjectsTyped, Pod, Target
  <2>6. UNCHANGED <<set, self, made, pods>>
    BY <1>14 DEF Adopt
  <2>7. QED
    BY <2>3, <2>4, <2>5, <2>6
<1>15. ASSUME NEW s \in Sets, Collect(s)
      PROVE  Apart'
  BY <1>15
     DEF Collect
<1>16. CASE UNCHANGED vars
  BY <1>16 DEF vars
<1>17. CASE EventsChange
  BY <1>17
     DEF EventsChange, Change
<1>18. QED
  BY <1>1, <1>2, <1>3, <1>4, <1>5, <1>6, <1>7, <1>8, <1>9, <1>10, <1>11, <1>12, <1>13,
     <1>14, <1>15, <1>16, <1>17 DEF Next, User, Cluster

-----------------------------------------------------------------------------
(* A pod has its claims *)

LEMMA ClaimsStep ==
    ASSUME IInv, [Next]_vars
    PROVE  HasClaims'
<1> USE DEF IInv, TypeOK, WorkersTyped, HasClaims, Lives, Exists, Pending, ClaimFor,
            SyncPodHasItsClaims, objects, created, locals, counters
<1>1. ASSUME NEW w \in Workers, Work(w)
      PROVE  HasClaims'
  <2>1. CASE AddFinalizer(w)
    BY <2>1
       DEF AddFinalizer, ReplicaSet, ObjectsTyped
  <2>2. CASE Reconcile(w)
    BY <2>2
       DEF Reconcile, Goto, LocalOK, Creating
  <2>3. CASE Cleanup(w)
    BY <2>3
       DEF Cleanup, ReplicaSet, ObjectsTyped
  <2>4. CASE List(w)
    BY <2>4
       DEF List, ListCounting, End, Goto, LocalOK, Creating
  <2>5. CASE GetSource(w)
    <3>1. made[w] = {} /\ pc[w] # "pod" /\ pc'[w] # "pod"
      BY <2>5 DEF GetSource, End, Goto, LocalOK, Creating
    <3>2. /\ UNCHANGED <<set, claims, pods>>
          /\ made'[w] = {}
          /\ \A v \in Workers : v # w =>
               /\ self'[v] = self[v] /\ made'[v] = made[v] /\ pc'[v] = pc[v]
               /\ first'[v] = first[v] /\ next'[v] = next[v] /\ from'[v] = from[v]
      BY <2>5, <3>1 DEF GetSource, End, Goto
    <3>3. QED
      BY <3>1, <3>2
  <2>6. CASE GetNode(w)
    BY <2>6
       DEF GetNode, End, Goto
  <2>7. CASE ListNodes(w)
    BY <2>7
       DEF ListNodes, Goto, LocalOK, Creating
  <2>8. CASE CreateDataPod(w)
    BY <2>8
       DEF CreateDataPod, Goto, MadeOK, ObjectsTyped, MoreReplicas
  <2>9. CASE AlreadyExists(w)
    BY <2>9
       DEF AlreadyExists, End, Goto
  <2>10. CASE CreateReplicaClaim(w)
    <3>1. /\ pc' = [pc EXCEPT ![w] = "replica"]
          /\ next' = [next EXCEPT ![w] = next[w] + 1]
          /\ pc[w] = "claim"
          /\ UNCHANGED <<set, self, made, from, first, pods>>
      BY <2>10 DEF CreateReplicaClaim, Goto
    <3>2. \A t \in made[w] : t.index = next[w] => ClaimFor(w, t.index, t.node) \in claims'
      BY <2>10 DEF CreateReplicaClaim
    <3>3. claims \subseteq claims'
      BY <2>10 DEF CreateReplicaClaim
    <3>4. Lives(w) => \A t \in made[w] : ClaimFor(w, t.index, t.node) \in claims'
      BY <3>1, <3>2, <3>3
    <3>5. QED
      BY <3>1, <3>3, <3>4
  <2>11. CASE CreateSourceClaim(w)
    BY <2>11
       DEF CreateSourceClaim, Goto
  <2>12. CASE CreateSyncPod(w)
    <3> DEFINE new == [set |-> self[w].uid, source |-> from[w], targets |-> made[w], first |-> first[w]]
    <3>1. /\ pods' = pods \cup {new}
          /\ new.set = self[w].uid
          /\ new.source = from[w]
          /\ new.targets = made[w]
          /\ new.first = first[w]
          /\ pc[w] = "pod"
      BY <2>12 DEF CreateSyncPod
    <3>2. /\ self' = [self EXCEPT ![w] = NULL]
          /\ made' = [made EXCEPT ![w] = {}]
          /\ pc' = [pc EXCEPT ![w] = "idle"]
          /\ next' = [next EXCEPT ![w] = 0]
          /\ from' = [from EXCEPT ![w] = NULL]
          /\ first' = [first EXCEPT ![w] = 0]
          /\ UNCHANGED <<set, claims>>
      BY <2>12 DEF CreateSyncPod, End, Goto
    <3>3. self[w] # NULL
      BY <2>12 DEF CreateSyncPod, LocalOK
    <3> HIDE DEF new
    <3>4. SyncPodHasItsClaims'
      BY <3>1, <3>2, <3>3
    <3>5. QED
      BY <3>2, <3>4
  <2>14. QED
    BY <1>1, <2>1, <2>2, <2>3, <2>4, <2>5, <2>6, <2>7, <2>8, <2>9, <2>10, <2>11, <2>12
    DEF Work
<1>2. ASSUME NEW w \in Workers, Fail(w)
      PROVE  HasClaims'
  BY <1>2
     DEF Fail, End, Goto, Fault
<1>3. ASSUME NEW w \in Workers, Observe(w)
      PROVE  HasClaims'
  BY <1>3
     DEF Observe
<1>4. ASSUME NEW w \in Workers, Restart(w)
      PROVE  HasClaims'
  BY <1>4
     DEF Restart, End, Goto, Fault
<1>5. ASSUME NEW w \in Workers, Panic(w)
      PROVE  HasClaims'
  BY <1>5
     DEF Panic, End, Goto, Fault
<1>6. ASSUME NEW w \in Workers, Start(w)
      PROVE  HasClaims'
  BY <1>6
     DEF Start, Change
<1>7. ASSUME NEW w \in Workers, Stop(w)
      PROVE  HasClaims'
  BY <1>7
     DEF Stop
<1>8. ASSUME NEW s \in Sets, NEW k \in 0 .. MaxReplicas, NEW all \in BOOLEAN,
             Create(s, k, all)
      PROVE  HasClaims'
  BY <1>8
     DEF Create, Covered, Covers
<1>9. CASE Delete
  BY <1>9
     DEF Delete, ReplicaSet, ObjectsTyped
<1>10. ASSUME NEW k \in 0 .. MaxReplicas, Scale(k)
      PROVE  HasClaims'
  BY <1>10
     DEF Scale, Change, ReplicaSet, ObjectsTyped
<1>11. ASSUME NEW s \in Sets, NEW i \in Indices, Label(s, i)
      PROVE  HasClaims'
  BY <1>11
     DEF Label, Change
<1>12. ASSUME NEW n \in Nodes, AddNode(n) \/ RemoveNode(n) \/ OwnSource(n)
      PROVE  HasClaims'
  BY <1>12
     DEF AddNode, RemoveNode, OwnSource, Change
<1>13. ASSUME NEW o \in Others, NEW as \in {"none", "plain", "labelled"}, Mark(o, as)
      PROVE  HasClaims'
  BY <1>13
     DEF Mark, Change
<1>14. ASSUME NEW s \in Sets, NEW i \in Indices, Adopt(s, i)
      PROVE  HasClaims'
  BY <1>14
     DEF Adopt
<1>15. ASSUME NEW s \in Sets, Collect(s)
      PROVE  HasClaims'
  BY <1>15
     DEF Collect
<1>16. CASE UNCHANGED vars
  BY <1>16 DEF vars
<1>17. CASE EventsChange
  BY <1>17
     DEF EventsChange, Change
<1>18. QED
  BY <1>1, <1>2, <1>3, <1>4, <1>5, <1>6, <1>7, <1>8, <1>9, <1>10, <1>11, <1>12, <1>13,
     <1>14, <1>15, <1>16, <1>17 DEF Next, User, Cluster

-----------------------------------------------------------------------------
LEMMA NextIInv == IInv /\ [Next]_vars => IInv'
<1> SUFFICES ASSUME IInv, [Next]_vars
             PROVE  IInv'
  OBVIOUS
<1>1. TypeOK'
  BY ObjectsStep, WorkersStep, CountersStep DEF TypeOK
<1>2. QED
  BY <1>1, CoveredStep, LocalStep, MadeStep, SpreadStep, ApartStep, ClaimsStep DEF IInv

\* The invariant holds in every reachable state of the replica set reconciler.
THEOREM Invariance == Spec => []IInv
<1>1. QED
  BY InitIInv, NextIInv, PTL DEF Spec

\* Every variable of the replica set reconciler holds what its declaration says.
THEOREM TypeCorrect == Spec => []TypeOK
<1>1. IInv => TypeOK
  BY DEF IInv
<1>2. QED
  BY <1>1, Invariance, PTL

\* create_replica_data_pod never makes more replicas than the set ever asked
\* for, in however many processes and from however old an object.
THEOREM ReplicasWereAsked == Spec => []ReplicasAsAsked
<1>1. IInv => ReplicasAsAsked
  BY DEF IInv, Covered
<1>2. QED
  BY <1>1, Invariance, PTL

\* The name that create_replica_data_pod gives a replica admits one pass only:
\* as long as the set exists no two pods copy to one replica.
THEOREM OneWriter == Spec => []OneWriterPerReplica
<1>1. IInv => OneWriterPerReplica
  BY DEF IInv, Apart
<1>2. QED
  BY <1>1, Invariance, PTL

\* The pod that create_replica_pod makes copies to DataNodes that differ from
\* each other and from the one it copies from.
THEOREM PodsSpread == Spec => []SyncPodsSpread
<1>1. IInv => SyncPodsSpread
  BY DEF IInv
<1>2. QED
  BY <1>1, Invariance, PTL

\* As long as the set exists the claims that create_replica_pvc made for a pod
\* are there, whatever fails and restarts.
THEOREM PodsHaveClaims == Spec => []SyncPodHasItsClaims
<1>1. IInv => SyncPodHasItsClaims
  BY DEF IInv, HasClaims
<1>2. QED
  BY <1>1, Invariance, PTL

=============================================================================
