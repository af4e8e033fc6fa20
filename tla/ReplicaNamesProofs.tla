-------------------------- MODULE ReplicaNamesProofs --------------------------
(***************************************************************************)
(* Proof that DataReplicaSetReconciler implements ReplicaNames, for every  *)
(* value of its constants: through every overlap of processes and every    *)
(* fault, the names of the replicas are all that passes share, and enough. *)
(***************************************************************************)
EXTENDS DataReplicaSetReconcilerProofs

(***************************************************************************)
(* The invariant IInv has what the steps need: the replicas, passes and    *)
(* pods of a set were asked for, so that a new set has none, and outside   *)
(* of Creating a pass made nothing, so that it loses nothing when it ends. *)
(***************************************************************************)
Live == IF set = NULL THEN NULL ELSE set.uid
Past == {s \in Sets : asked[s] # NULL}
AllHeld == [w \in Workers |-> Held(w)]

SetStays ==
    /\ set = NULL <=> set' = NULL
    /\ set # NULL => set'.uid = set.uid
    /\ \A s \in Sets : asked[s] = NULL <=> asked'[s] = NULL

\* As long as the set is the same one, so are its parts that no step touches.
LEMMA Untouched ==
    ASSUME SetStays
    PROVE  /\ Live' = Live /\ Past' = Past
           /\ \A s : Exists(s)' <=> Exists(s)
           /\ pods' = pods => Targeted' = Targeted
           /\ replica' = replica => Taken' = Taken
           /\ \A w \in Workers : self'[w] = self[w] /\ made'[w] = made[w] => Held(w)' = Held(w)
           /\ \A w \in Workers : made'[w] = {} => Held(w)' = {}
<1>1. \A s : Exists(s)' <=> Exists(s)
  BY DEF SetStays, Exists
<1>2. Live' = Live /\ Past' = Past
  BY DEF SetStays, Live, Past
<1>3. pods' = pods => Targeted' = Targeted
  BY <1>1 DEF Targeted
<1>4. replica' = replica => Taken' = Taken
  BY DEF SetStays, Taken
<1>5. \A w \in Workers : self'[w] = self[w] /\ made'[w] = made[w] => Held(w)' = Held(w)
  BY <1>1 DEF Held
<1>6. \A w \in Workers : made'[w] = {} => Held(w)' = {}
  BY DEF Held
<1>7. QED
  BY <1>1, <1>2, <1>3, <1>4, <1>5, <1>6

\* A pass ends, begins or goes on, and makes nothing.
LEMMA PassDrops ==
    ASSUME NEW w \in Workers, UNCHANGED <<set, asked, replica, pods>>, made'[w] = {},
           \A v \in Workers : v # w => self'[v] = self[v] /\ made'[v] = made[v]
    PROVE  Names!Drop(w)
<1>1. SetStays
  BY DEF SetStays
<1>2. AllHeld' = [AllHeld EXCEPT ![w] = {}]
  BY <1>1, Untouched DEF AllHeld
<1>3. QED
  BY <1>1, <1>2, Untouched DEF Names!Drop, Live, Past, AllHeld

\* No pass takes part, and the set stays.
LEMMA Stutters ==
    ASSUME SetStays, UNCHANGED <<self, made, pods>>,
           \A s \in Sets, i \in Indices :
              Exists(s) => (replica'[s][i] # NULL <=> replica[s][i] # NULL),
           set # NULL => set.uid \in Sets
    PROVE  UNCHANGED Names!vars
<1>1. Taken' = Taken
  BY DEF SetStays, Taken, Exists
<1>2. AllHeld' = AllHeld
  BY Untouched DEF AllHeld
<1>3. Live' = Live /\ Past' = Past /\ Targeted' = Targeted
  BY Untouched
<1>4. QED
  BY <1>1, <1>2, <1>3 DEF Names!vars, Live, Past, AllHeld

\* The set is gone.
LEMMA SetGoes ==
    ASSUME set # NULL, set.uid \in Sets, set' = NULL, asked' = asked
    PROVE  Names!Finish
<1>1. ~\E s : Exists(s)'
  BY DEF Exists
<1>2. Taken' = {} /\ Targeted' = {} /\ \A w \in Workers : Held(w)' = {}
  BY <1>1 DEF Taken, Targeted, Held
<1>3. Live # NULL /\ Live' = NULL /\ Past' = Past
  BY ConstantsAssumption DEF Live, Past
<1>4. QED
  BY <1>2, <1>3 DEF Names!Finish, Names!Nothing, Live, Past

LEMMA SetComes ==
    ASSUME IInv, NEW s \in Sets, NEW k \in 0 .. MaxReplicas, NEW all \in BOOLEAN,
           Create(s, k, all)
    PROVE  Names!Begin(s)
<1> USE DEF IInv, TypeOK, ObjectsTyped, created, locals
<1>1. /\ set = NULL /\ asked[s] = NULL /\ asked' = [asked EXCEPT ![s] = k]
      /\ set' = [uid |-> s, replicas |-> k, all |-> all,
                  finalizer |-> FALSE, deleting |-> FALSE]
      /\ UNCHANGED <<self, made, replica, pods>>
  BY DEF Create
<1>2. set' \in ReplicaSet /\ k # NULL /\ s # NULL
  BY <1>1, ConstantsAssumption DEF ReplicaSet
<1>3. /\ set = NULL /\ set' # NULL /\ set'.uid = s
      /\ asked[s] = NULL /\ asked' = [asked EXCEPT ![s] = k] /\ k # NULL
      /\ UNCHANGED <<self, made, replica, pods>>
  BY <1>1, <1>2, ConstantsAssumption DEF ReplicaSet
<1>4. \A i \in Indices : replica[s][i] = NULL
  BY <1>3 DEF Covered, ReplicasAsAsked
<1>5. \A y \in pods : y.set # s
  BY <1>3 DEF Covered
<1>6. \A w \in Workers : self[w] # NULL => self[w].uid # s
  BY <1>3 DEF Covered, Covers
<1>7. \A r : ~Exists(r) /\ (Exists(r)' => r = s)
  BY <1>3 DEF Exists
<1>8. Taken = {} /\ Targeted = {} /\ \A w \in Workers : Held(w) = {}
  BY <1>3, <1>7 DEF Taken, Targeted, Held
<1>9. Taken' = {}
  BY <1>3, <1>4 DEF Taken
<1>10. Targeted' = {}
  BY <1>3, <1>5, <1>7 DEF Targeted
<1>11. \A w \in Workers : Held(w)' = {}
  BY <1>3, <1>6, <1>7 DEF Held
<1>12. Live = NULL /\ Live' = s /\ s \notin Past /\ Past' = Past \cup {s}
  BY <1>3 DEF Live, Past
<1>13. QED
  BY <1>8, <1>9, <1>10, <1>11, <1>12 DEF Names!Begin, Live, Past

-----------------------------------------------------------------------------
(* Every step is one of ReplicaNames, or none *)

LEMMA NextIndex ==
    ASSUME IInv, NEW w \in Workers, CreateDataPod(w)
    PROVE  next[w] \in Indices
BY ConstantsAssumption
   DEF IInv, TypeOK, CreateDataPod, WorkersTyped, MoreReplicas, Indices, LocalOK, Creating,
       ReplicaSet

\* A new DataPod has a name that no replica of the set has: the API server
\* answers AlreadyExists otherwise, and that ends the pass.
LEMMA PassTakes ==
    ASSUME IInv, NEW w \in Workers, CreateDataPod(w), Lives(w)
    PROVE  Names!Take(w, next[w])
<1> USE DEF IInv, TypeOK, objects, created
<1>1. PICK n \in free[w] :
        /\ replica' = [replica EXCEPT ![self[w].uid][next[w]] =
                         [node |-> n, labelled |-> FALSE, adopted |-> FALSE]]
        /\ made' = [made EXCEPT ![w] = @ \cup {[index |-> next[w], node |-> n]}]
  BY DEF CreateDataPod
<1>2. /\ UNCHANGED <<set, asked, self, pods>>
      /\ replica[self[w].uid][next[w]] = NULL
  BY DEF CreateDataPod
<1>3. set # NULL /\ set.uid = self[w].uid /\ Exists(self[w].uid)
  BY DEF Lives, Exists
<1>4. set.uid \in Sets /\ set.uid # NULL
  BY <1>3, ConstantsAssumption DEF ObjectsTyped, ReplicaSet
<1>5. next[w] \in Indices
  BY NextIndex
<1>6. SetStays
  BY <1>2 DEF SetStays
<1>7. Taken' = Taken \cup {next[w]} /\ next[w] \notin Taken
  <2>1. [node |-> n, labelled |-> FALSE, adopted |-> FALSE] # NULL
    <3>1. n \in Nodes
      BY <1>1 DEF WorkersTyped
    <3>2. [node |-> n, labelled |-> FALSE, adopted |-> FALSE]
            \in [node : Nodes, labelled : BOOLEAN, adopted : BOOLEAN]
      BY <3>1
    <3>3. QED
      BY <3>2, ConstantsAssumption
  <2>2. \A i \in Indices :
          replica'[set.uid][i] = IF i = next[w]
                                 THEN [node |-> n, labelled |-> FALSE, adopted |-> FALSE]
                                 ELSE replica[set.uid][i]
    BY <1>1, <1>3, <1>4, <1>5 DEF ObjectsTyped
  <2>3. QED
    BY <2>1, <2>2, <1>2, <1>3, <1>5 DEF Taken
<1>8. AllHeld' = [AllHeld EXCEPT ![w] = @ \cup {next[w]}]
  <2>1. Held(w)' = Held(w) \cup {next[w]}
    <3>1. made'[w] = made[w] \cup {[index |-> next[w], node |-> n]}
      BY <1>1 DEF WorkersTyped
    <3>2. self'[w] # NULL /\ self[w] # NULL /\ Exists(self[w].uid) /\ Exists(self[w].uid)'
      BY <1>2, <1>3 DEF Lives, Exists
    <3>3. Held(w) = {t.index : t \in made[w]} /\ Held(w)' = {t.index : t \in made'[w]}
      BY <3>2, <1>2 DEF Held
    <3>4. \A t : t = [index |-> next[w], node |-> n] => t.index = next[w]
      OBVIOUS
    <3>5. \A i : i \in Held(w)' <=> i \in Held(w) \cup {next[w]}
      BY <3>1, <3>3, <3>4, Zenon
    <3>6. QED
      BY <3>5
  <2>2. \A v \in Workers : v # w => Held(v)' = Held(v)
    BY <1>1, <1>2, <1>6, Untouched DEF WorkersTyped
  <2>3. QED
    BY <2>1, <2>2 DEF AllHeld
<1>9. Live' = Live /\ Past' = Past /\ Targeted' = Targeted /\ Live # NULL
  BY <1>2, <1>3, <1>4, <1>6, Untouched DEF Live
<1>10. QED
  BY <1>7, <1>8, <1>9 DEF Names!Take, Live, Past, AllHeld

\* The pass of an object that is gone creates a DataPod that no set has.
LEMMA PassTakesNothing ==
    ASSUME IInv, NEW w \in Workers, CreateDataPod(w), ~Lives(w)
    PROVE  UNCHANGED Names!vars
<1> USE DEF IInv, TypeOK, objects, created
<1>1. PICK n \in free[w] :
        /\ replica' = [replica EXCEPT ![self[w].uid][next[w]] =
                         [node |-> n, labelled |-> FALSE, adopted |-> FALSE]]
        /\ made' = [made EXCEPT ![w] = @ \cup {[index |-> next[w], node |-> n]}]
  BY DEF CreateDataPod
<1>2. UNCHANGED <<set, asked, self, pods>> /\ self[w] # NULL
  BY DEF CreateDataPod, LocalOK
<1>3. ~Exists(self[w].uid) /\ self[w].uid \in Sets
  BY <1>2 DEF Lives, WorkersTyped, ReplicaSet
<1>4. SetStays
  BY <1>2 DEF SetStays
<1>5. Taken' = Taken
  BY <1>1, <1>2, <1>3 DEF Taken, Exists, ObjectsTyped, ReplicaSet
<1>6. AllHeld' = AllHeld
  <2>1. Held(w)' = Held(w)
    BY <1>2, <1>3 DEF Held, Exists
  <2>2. \A v \in Workers : v # w => Held(v)' = Held(v)
    BY <1>1, <1>2, <1>4, Untouched DEF WorkersTyped
  <2>3. QED
    BY <2>1, <2>2 DEF AllHeld
<1>7. Live' = Live /\ Past' = Past /\ Targeted' = Targeted
  BY <1>2, <1>4, Untouched
<1>8. QED
  BY <1>5, <1>6, <1>7 DEF Names!vars, Live, Past, AllHeld

LEMMA PassServes ==
    ASSUME IInv, NEW w \in Workers, CreateSyncPod(w)
    PROVE  Names!Serve(w)
<1> USE DEF IInv, TypeOK, objects, created
<1> DEFINE new == [set |-> self[w].uid, source |-> from[w], targets |-> made[w],
                   first |-> first[w]]
<1>1. pods' = pods \cup {new} /\ UNCHANGED <<set, asked, replica>> /\ self[w] # NULL
  BY DEF CreateSyncPod, LocalOK
<1>2. made'[w] = {} /\ \A v \in Workers : v # w => self'[v] = self[v] /\ made'[v] = made[v]
  BY DEF CreateSyncPod, End, WorkersTyped
<1>3. SetStays
  BY <1>1 DEF SetStays
<1>4. AllHeld' = [AllHeld EXCEPT ![w] = {}]
  BY <1>2, <1>3, Untouched DEF AllHeld
<1>5. Targeted' = Targeted \cup AllHeld[w]
  <2>1. Held(w) \subseteq Indices
    BY DEF Held, WorkersTyped, Target
  <2>2. \A i \in Indices : i \in Targeted' <=> i \in Targeted \/ i \in Held(w)
    <3>1. TAKE i \in Indices
    <3>2. i \in Held(w) <=> Exists(self[w].uid) /\ \E t \in made[w] : t.index = i
      BY <1>1 DEF Held
    <3>3. new.set = self[w].uid /\ new.targets = made[w]
      OBVIOUS
    <3>4. i \in Targeted' <=> i \in Targeted \/ (Exists(new.set) /\ \E t \in new.targets : t.index = i)
      <4> HIDE DEF new
      <4>1. QED
        BY <1>1 DEF Targeted, Exists
    <3>5. QED
      BY <3>2, <3>3, <3>4
  <2>3. Targeted \subseteq Indices /\ Targeted' \subseteq Indices
    BY DEF Targeted
  <2>4. QED
    BY <2>1, <2>2, <2>3 DEF AllHeld
<1>6. Live' = Live /\ Past' = Past /\ Taken' = Taken
  BY <1>1, <1>3, Untouched
<1>7. QED
  BY <1>4, <1>5, <1>6 DEF Names!Serve, Live, Past, AllHeld

\* A pass that ends, or breaks off, drops what it made and served nothing of.
LEMMA PassEnds ==
    ASSUME TypeOK, NEW w \in Workers, End(w), UNCHANGED <<objects, created>>
    PROVE  Names!Drop(w)
<1>1. made'[w] = {} /\ \A v \in Workers : v # w => self'[v] = self[v] /\ made'[v] = made[v]
  BY DEF End, TypeOK, WorkersTyped
<1>2. QED
  BY <1>1, PassDrops DEF objects, created

LEMMA WorkNames ==
    ASSUME IInv, NEW w \in Workers, Work(w)
    PROVE  [Names!Next]_(Names!vars)
<1> USE DEF IInv, TypeOK, ObjectsTyped, objects, created, locals, counters
<1>0. set # NULL => set.uid \in Sets
  BY DEF ReplicaSet
<1>1. CASE AddFinalizer(w)
  <2>1. set' \in ReplicaSet /\ set'.uid = set.uid
    BY <1>1 DEF AddFinalizer, ReplicaSet
  <2>2. set' # NULL
    BY <2>1, ConstantsAssumption DEF ReplicaSet
  <2>3. SetStays
    BY <1>1, <2>1, <2>2 DEF AddFinalizer, SetStays
  <2>4. QED
    BY <1>0, <1>1, <2>3, Stutters DEF AddFinalizer
<1>2. CASE Reconcile(w)
  <2>1. made'[w] = {} /\ \A v \in Workers : v # w => self'[v] = self[v] /\ made'[v] = made[v]
    BY <1>2 DEF Reconcile, WorkersTyped, LocalOK, Creating
  <2>2. Names!Drop(w)
    BY <1>2, <2>1, PassDrops DEF Reconcile
  <2>3. QED
    BY <2>2 DEF Names!Next
<1>3. CASE Cleanup(w)
  <2>1. CASE set.deleting
    <3>1. Names!Finish
      BY <1>0, <1>3, <2>1, SetGoes DEF Cleanup
    <3>2. QED
      BY <3>1 DEF Names!Next
  <2>2. CASE ~set.deleting
    <3>1. set' \in ReplicaSet /\ set'.uid = set.uid
      BY <1>3, <2>2 DEF Cleanup, ReplicaSet
    <3>2. set' # NULL
      BY <3>1, ConstantsAssumption DEF ReplicaSet
    <3>3. SetStays
      BY <1>3, <3>1, <3>2 DEF Cleanup, SetStays
    <3>4. QED
      BY <1>0, <1>3, <3>3, Stutters DEF Cleanup
  <2>3. QED
    BY <2>1, <2>2
<1>4. CASE List(w)
  <2>1. CASE End(w)
    BY <1>4, <2>1, PassEnds DEF List, ListCounting, Names!Next
  <2>2. CASE ~End(w)
    BY <1>0, <1>4, <2>2, Stutters DEF List, ListCounting, SetStays
  <2>3. QED
    BY <2>1, <2>2
<1>5. CASE GetSource(w)
  <2>1. CASE End(w)
    BY <1>5, <2>1, PassEnds DEF GetSource, Names!Next
  <2>2. CASE ~End(w)
    BY <1>0, <1>5, <2>2, Stutters DEF GetSource, SetStays
  <2>3. QED
    BY <2>1, <2>2
<1>6. CASE GetNode(w)
  <2>1. CASE End(w)
    BY <1>6, <2>1, PassEnds DEF GetNode, Names!Next
  <2>2. CASE ~End(w)
    BY <1>0, <1>6, <2>2, Stutters DEF GetNode, SetStays
  <2>3. QED
    BY <2>1, <2>2
<1>7. CASE ListNodes(w)
  BY <1>0, <1>7, Stutters DEF ListNodes, SetStays
<1>8. CASE CreateDataPod(w)
  <2>1. next[w] \in Indices
    BY <1>8, NextIndex
  <2>2. CASE Lives(w)
    <3>1. Names!Take(w, next[w])
      BY <1>8, <2>2, PassTakes
    <3>2. QED
      BY <2>1, <3>1 DEF Names!Next
  <2>3. CASE ~Lives(w)
    BY <1>8, <2>3, PassTakesNothing
  <2>4. QED
    BY <2>2, <2>3
<1>9. CASE AlreadyExists(w)
  BY <1>9, PassEnds DEF AlreadyExists, Names!Next
<1>10. CASE CreateReplicaClaim(w)
  BY <1>0, <1>10, Stutters DEF CreateReplicaClaim, SetStays
<1>11. CASE CreateSourceClaim(w)
  BY <1>0, <1>11, Stutters DEF CreateSourceClaim, SetStays
<1>12. CASE CreateSyncPod(w)
  BY <1>12, PassServes DEF Names!Next
<1>13. QED
  BY <1>1, <1>2, <1>3, <1>4, <1>5, <1>6, <1>7, <1>8, <1>9, <1>10, <1>11, <1>12 DEF Work

LEMMA UserNames ==
    ASSUME IInv, User
    PROVE  [Names!Next]_(Names!vars)
<1> USE DEF IInv, TypeOK, ObjectsTyped, objects, created, locals, counters
<1>0. set # NULL => set.uid \in Sets
  BY DEF ReplicaSet
<1>1. ASSUME NEW s \in Sets, NEW k \in 0 .. MaxReplicas, NEW all \in BOOLEAN,
             Create(s, k, all)
      PROVE  [Names!Next]_(Names!vars)
  BY <1>1, SetComes DEF Names!Next
<1>2. CASE Delete
  <2>1. CASE set' = NULL
    <3>1. Names!Finish
      BY <1>0, <1>2, <2>1, SetGoes DEF Delete
    <3>2. QED
      BY <3>1 DEF Names!Next
  <2>2. CASE set' # NULL
    <3>1. SetStays
      BY <1>2, <2>2 DEF Delete, SetStays, ReplicaSet
    <3>2. QED
      BY <1>0, <1>2, <3>1, Stutters DEF Delete
  <2>3. QED
    BY <2>1, <2>2
<1>3. ASSUME NEW k \in 0 .. MaxReplicas, Scale(k)
      PROVE  [Names!Next]_(Names!vars)
  <2>1. set' # NULL /\ set'.uid = set.uid
    <3>1. set' \in ReplicaSet
      BY <1>3 DEF Scale, ReplicaSet
    <3>2. QED
      BY <1>3, <3>1, ConstantsAssumption DEF Scale, ReplicaSet
  <2>2. \A s \in Sets : asked[s] = NULL <=> asked'[s] = NULL
    BY <1>0, <1>3, ConstantsAssumption DEF Scale, Covered, Covers
  <2>3. SetStays
    BY <1>3, <2>1, <2>2 DEF Scale, SetStays
  <2>4. QED
    BY <1>0, <1>3, <2>3, Stutters DEF Scale
<1>4. ASSUME NEW s \in Sets, NEW i \in Indices, Label(s, i)
      PROVE  [Names!Next]_(Names!vars)
  <2>1. \A r \in Sets, j \in Indices : replica'[r][j] # NULL <=> replica[r][j] # NULL
    <3>1. replica[s][i] \in [node : Nodes, labelled : BOOLEAN, adopted : BOOLEAN]
      BY <1>4 DEF Label, Replica
    <3>2. [replica[s][i] EXCEPT !.labelled = TRUE]
            \in [node : Nodes, labelled : BOOLEAN, adopted : BOOLEAN]
      BY <3>1
    <3>3. [replica[s][i] EXCEPT !.labelled = TRUE] # NULL
      BY <3>2, ConstantsAssumption
    <3>4. QED
      BY <1>4, <3>3 DEF Label
  <2>2. QED
    BY <1>0, <1>4, <2>1, Stutters DEF Label, SetStays
<1>5. ASSUME NEW n \in Nodes, AddNode(n) \/ RemoveNode(n)
      PROVE  [Names!Next]_(Names!vars)
  BY <1>0, <1>5, Stutters DEF AddNode, RemoveNode, SetStays
<1>6. ASSUME NEW o \in Others, NEW as \in {"none", "plain", "labelled"}, Mark(o, as)
      PROVE  [Names!Next]_(Names!vars)
  BY <1>0, <1>6, Stutters DEF Mark, SetStays
<1>7. CASE EventsChange
  BY <1>0, <1>7, Stutters DEF EventsChange, SetStays
<1>8. QED
  BY <1>1, <1>2, <1>3, <1>4, <1>5, <1>6, <1>7 DEF User

LEMMA ClusterNames ==
    ASSUME IInv, Cluster
    PROVE  [Names!Next]_(Names!vars)
<1> USE DEF IInv, TypeOK, ObjectsTyped, objects, created, locals, counters
<1>0. set # NULL => set.uid \in Sets
  BY DEF ReplicaSet
<1>1. ASSUME NEW n \in Nodes, OwnSource(n)
      PROVE  [Names!Next]_(Names!vars)
  BY <1>0, <1>1, Stutters DEF OwnSource, SetStays
<1>2. ASSUME NEW s \in Sets, NEW i \in Indices, Adopt(s, i)
      PROVE  [Names!Next]_(Names!vars)
  <2>1. \A r \in Sets, j \in Indices : replica'[r][j] # NULL <=> replica[r][j] # NULL
    <3>1. replica[s][i] \in [node : Nodes, labelled : BOOLEAN, adopted : BOOLEAN]
      BY <1>2 DEF Adopt, Replica
    <3>2. [replica[s][i] EXCEPT !.adopted = TRUE]
            \in [node : Nodes, labelled : BOOLEAN, adopted : BOOLEAN]
      BY <3>1
    <3>3. [replica[s][i] EXCEPT !.adopted = TRUE] # NULL
      BY <3>2, ConstantsAssumption
    <3>4. QED
      BY <1>2, <3>3 DEF Adopt
  <2>2. QED
    BY <1>0, <1>2, <2>1, Stutters DEF Adopt, SetStays
<1>3. ASSUME NEW s \in Sets, Collect(s)
      PROVE  [Names!Next]_(Names!vars)
  <2>1. SetStays
    BY <1>3 DEF Collect, SetStays
  <2>2. \A r \in Sets, j \in Indices :
          Exists(r) => (replica'[r][j] # NULL <=> replica[r][j] # NULL)
    BY <1>3 DEF Collect
  <2>3. Taken' = Taken
    BY <1>0, <1>3, <2>2 DEF Collect, Taken, Exists
  <2>4. Targeted' = Targeted
    BY <1>3 DEF Collect, Targeted, Exists
  <2>5. AllHeld' = AllHeld /\ Live' = Live /\ Past' = Past
    BY <1>3, <2>1, Untouched DEF Collect, AllHeld
  <2>6. QED
    BY <2>3, <2>4, <2>5 DEF Names!vars, Live, Past, AllHeld
<1>4. QED
  BY <1>1, <1>2, <1>3 DEF Cluster

LEMMA NamesStep ==
    ASSUME IInv, [Next]_vars
    PROVE  [Names!Next]_(Names!vars)
<1> USE DEF IInv, TypeOK, ObjectsTyped, objects, created, locals, counters
<1>0. set # NULL => set.uid \in Sets
  BY DEF ReplicaSet
<1>1. ASSUME NEW w \in Workers, Work(w)
      PROVE  [Names!Next]_(Names!vars)
  BY <1>1, WorkNames
<1>2. ASSUME NEW w \in Workers, Fail(w)
      PROVE  [Names!Next]_(Names!vars)
  BY <1>2, PassEnds DEF Fail, Names!Next
<1>3. ASSUME NEW w \in Workers, Restart(w)
      PROVE  [Names!Next]_(Names!vars)
  BY <1>3, PassEnds DEF Restart, Names!Next
<1>4. ASSUME NEW w \in Workers, Observe(w) \/ Start(w) \/ Stop(w)
      PROVE  [Names!Next]_(Names!vars)
  BY <1>0, <1>4, Stutters DEF Observe, Start, Stop, SetStays
<1>5. CASE User
  BY <1>5, UserNames
<1>6. CASE Cluster
  BY <1>6, ClusterNames
<1>7. CASE UNCHANGED vars
  BY <1>0, <1>7, Stutters DEF vars, SetStays
<1>8. ASSUME NEW w \in Workers, Panic(w)
      PROVE  [Names!Next]_(Names!vars)
  BY <1>8, PassEnds DEF Panic, Names!Next
<1>9. QED
  BY <1>1, <1>2, <1>3, <1>4, <1>5, <1>6, <1>7, <1>8 DEF Next

LEMMA NamesInit == Init => Names!Init
<1> SUFFICES ASSUME Init
             PROVE  Names!Init
  OBVIOUS
<1>1. Taken = {} /\ Targeted = {} /\ \A w \in Workers : Held(w) = {}
  BY DEF Init, Taken, Targeted, Held
<1>2. set = NULL /\ {s \in Sets : asked[s] # NULL} = {}
  BY DEF Init
<1>3. QED
  BY <1>1, <1>2 DEF Names!Init, Names!Nothing

(***************************************************************************)
(* data_replica_set_controller.rs keeps the promise of ReplicaNames: each  *)
(* replica of a set is created once, by one process, and copied to by one  *)
(* pod or by none, through every overlap of passes, restart and failure,   *)
(* although the object's status is never written and no lock is held.      *)
(***************************************************************************)
THEOREM ImplementsTheNames == Spec => ImplementsNames
<1>1. Init => Names!Init
  BY NamesInit
<1>2. IInv /\ [Next]_vars => [Names!Next]_(Names!vars)
  BY NamesStep
<1>3. Spec => []IInv
  BY Invariance
<1>4. QED
  BY <1>1, <1>2, <1>3, PTL DEF Spec, ImplementsNames, Names!Spec

-----------------------------------------------------------------------------
(* What follows from the promise *)

Lost == Taken \ (Targeted \cup UNION {Held(w) : w \in Workers})

(***************************************************************************)
(* The price of the fixed names: a replica that a pass made and had no pod *)
(* for when it broke off is lost as long as the set lives, and a replica   *)
(* that a pod copies to keeps it.  No later pass of any process takes up   *)
(* what an earlier one left.                                               *)
(***************************************************************************)
THEOREM LostForGood ==
    Spec => [][Live' = Live => Lost \subseteq Lost' /\ Targeted \subseteq Targeted']_vars
<1>1. ASSUME [Names!Next]_(Names!vars), Live' = Live
      PROVE  Lost \subseteq Lost' /\ Targeted \subseteq Targeted'
  <2>1. CASE UNCHANGED Names!vars
    BY <2>1 DEF Names!vars, Lost, AllHeld
  <2>2. ASSUME NEW s \in Sets, Names!Begin(s)
        PROVE  Lost \subseteq Lost' /\ Targeted \subseteq Targeted'
    BY <1>1, <2>2, ConstantsAssumption DEF Names!Begin, Live
  <2>3. CASE Names!Finish
    BY <1>1, <2>3 DEF Names!Finish, Live
  <2>4. ASSUME NEW w \in Workers, NEW i \in Indices, Names!Take(w, i)
        PROVE  Lost \subseteq Lost' /\ Targeted \subseteq Targeted'
    <3>1. \A v \in Workers : Held(v)' \subseteq Held(v) \cup {i}
      BY <2>4 DEF Names!Take
    <3>2. QED
      BY <2>4, <3>1 DEF Names!Take, Lost
  <2>5. ASSUME NEW w \in Workers, Names!Serve(w)
        PROVE  Lost \subseteq Lost' /\ Targeted \subseteq Targeted'
    <3>1. \A v \in Workers : Held(v)' \subseteq Held(v)
      BY <2>5 DEF Names!Serve
    <3>2. QED
      BY <2>5, <3>1 DEF Names!Serve, Lost
  <2>6. ASSUME NEW w \in Workers, Names!Drop(w)
        PROVE  Lost \subseteq Lost' /\ Targeted \subseteq Targeted'
    <3>1. \A v \in Workers : Held(v)' \subseteq Held(v)
      BY <2>6 DEF Names!Drop
    <3>2. QED
      BY <2>6, <3>1 DEF Names!Drop, Lost
  <2>7. QED
    BY <1>1, <2>1, <2>2, <2>3, <2>4, <2>5, <2>6 DEF Names!Next
<1>2. IInv /\ [Next]_vars =>
        [Live' = Live => Lost \subseteq Lost' /\ Targeted \subseteq Targeted']_vars
  BY <1>1, NamesStep
<1>3. Spec => []IInv
  BY Invariance
<1>4. QED
  BY <1>2, <1>3, PTL DEF Spec

=============================================================================
