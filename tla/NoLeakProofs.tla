----------------------------- MODULE NoLeakProofs -----------------------------
(***************************************************************************)
(* Proof that a claim that DataReplicaSetReconciler leaves without a pod   *)
(* has one of two causes, for every value of its constants: something      *)
(* failed, or passes counted the DataPods differently.  Processes may come *)
(* and go by rollouts, reconcile old objects and overlap, and users may    *)
(* label, scale, delete and create whatever they like.                     *)
(***************************************************************************)
EXTENDS DataReplicaSetReconcilerProofs

(***************************************************************************)
(* The argument.  A pass begins with the replica whose index is the number *)
(* of DataPods it counted.  If all passes of a set that made anything      *)
(* counted k, the API server admits one DataPod of index k: the pass that  *)
(* makes it makes every later one, and any other pass ends at k, before it *)
(* made a claim.  The pass that did make claims therefore meets no name    *)
(* that is taken and comes to its pod.                                     *)
(*                                                                         *)
(* What a pass counted stays on its claims, and nothing takes these from a *)
(* set that exists, so that passes that do not agree never come to agree.  *)
(***************************************************************************)
ForSet(w, s) == self[w] # NULL /\ self[w].uid = s

InOrder ==
    \A w \in Workers :
        /\ made[w] = {} => next[w] = first[w]
        /\ made[w] # {} => \E t \in made[w] : t.index = first[w]
        /\ pc[w] = "claim" => made[w] # {}

\* All that was made for s was made by passes that counted k.
Uniform(s, k) ==
    /\ \A c \in claims : c.set = s => c.first = k
    /\ \A w \in Workers : ForSet(w, s) /\ made[w] # {} => first[w] = k

\* No replica comes before that of index k, and a pass that made anything made
\* all there is.
FirstDecides(s, k) ==
    /\ \A i \in Indices : replica[s][i] # NULL => replica[s][k] # NULL
    /\ \A w \in Workers : ForSet(w, s) /\ made[w] # {} =>
        \A i \in Indices : replica[s][i] # NULL => \E t \in made[w] : t.index = i

HasPod(c) == \E y \in pods : Mounts(y, c)

WillHavePod(c, w) ==
    /\ ForSet(w, c.set)
    /\ first[w] = c.first
    /\ \/ c.of = SOURCE /\ from[w] = c.node /\ pc[w] = "pod"
       \/ \E t \in made[w] : t.index = c.of /\ t.node = c.node

Mounted(s) == \A c \in claims :
    c.set = s => HasPod(c) \/ \E w \in Workers : WillHavePod(c, w)

ClaimsAsked == \A c \in claims : asked[c.set] # NULL

Settled == \A s \in Sets, k \in Indices :
    Exists(s) /\ Uniform(s, k) => FirstDecides(s, k) /\ Mounted(s)

LeakInv == ClaimsAsked /\ (faults = 0 => InOrder /\ Settled)

LEMMA InitLeakInv == Init => LeakInv
BY DEF Init, LeakInv, ClaimsAsked, InOrder, Settled, Exists

Other(w) ==
    Fail(w) \/ Observe(w) \/ Restart(w) \/ Panic(w) \/ Start(w) \/ Stop(w)

LEMMA ClaimsAskedStep ==
    ASSUME IInv, ClaimsAsked, [Next]_vars
    PROVE  ClaimsAsked'
<1> USE DEF ClaimsAsked, objects, created, locals, counters
<1>1. ASSUME NEW s \in Sets, asked[s] # NULL
      PROVE  asked'[s] # NULL
  <2>1. CASE asked' = asked
    BY <1>1, <2>1
  <2>2. ASSUME NEW r \in Sets, NEW k \in 0 .. MaxReplicas, NEW all \in BOOLEAN,
               Create(r, k, all)
        PROVE  asked'[s] # NULL
    BY <1>1, <2>2 DEF IInv, TypeOK, ObjectsTyped, Create
  <2>3. ASSUME NEW k \in 0 .. MaxReplicas, Scale(k)
        PROVE  asked'[s] # NULL
    <3>1. k # NULL
      BY ConstantsAssumption
    <3>2. asked' = [asked EXCEPT ![set.uid] = IF @ < k THEN k ELSE @]
      BY <2>3 DEF Scale
    <3>3. asked'[s] = asked[s] \/ asked'[s] = k
      BY <3>2 DEF IInv, TypeOK, ObjectsTyped
    <3>4. QED
      BY <1>1, <3>1, <3>3
  <2>4. CASE User
    BY <2>1, <2>2, <2>3, <2>4 DEF User, Delete, Label, Mark, EventsChange, AddNode,
                                      RemoveNode
  <2>5. CASE Cluster
    BY <2>1, <2>5 DEF Cluster, OwnSource, Adopt, Collect
  <2>6. ASSUME NEW w \in Workers, Work(w)
        PROVE  asked'[s] # NULL
    BY <2>1, <2>6 DEF Work, AddFinalizer, Reconcile, Cleanup, List, ListCounting, GetSource,
                      GetNode, ListNodes, CreateDataPod, AlreadyExists, CreateReplicaClaim,
                      CreateSourceClaim, CreateSyncPod
  <2>7. ASSUME NEW w \in Workers, Other(w)
        PROVE  asked'[s] # NULL
    BY <2>1, <2>7 DEF Other, Fail, Observe, Restart, Panic, Start, Stop
  <2>8. QED
    BY <2>1, <2>4, <2>5, <2>6, <2>7 DEF Next, Other, vars
<1>2. ASSUME NEW c \in claims', c \notin claims
      PROVE  \E w \in Workers : pc[w] # "idle" /\ c.set = self[w].uid
  <2>1. ASSUME NEW w \in Workers, CreateReplicaClaim(w) \/ CreateSourceClaim(w)
        PROVE  pc[w] # "idle" /\ c.set = self[w].uid
    BY <1>2, <2>1 DEF CreateReplicaClaim, CreateSourceClaim, ClaimFor
  <2>2. CASE claims' \subseteq claims
    BY <1>2, <2>2
  <2>3. CASE User
    BY <2>2, <2>3 DEF User, Create, Delete, Scale, Label, Mark, EventsChange, AddNode,
                      RemoveNode
  <2>4. CASE Cluster
    BY <2>2, <2>4 DEF Cluster, OwnSource, Adopt, Collect
  <2>5. ASSUME NEW w \in Workers, Work(w)
        PROVE  \E v \in Workers : pc[v] # "idle" /\ c.set = self[v].uid
    BY <2>1, <2>2, <2>5
       DEF Work, AddFinalizer, Reconcile, Cleanup, List, ListCounting, GetSource, GetNode,
           ListNodes, CreateDataPod, AlreadyExists, CreateSyncPod
  <2>6. ASSUME NEW w \in Workers, Other(w)
        PROVE  claims' \subseteq claims
    BY <2>6 DEF Other, Fail, Observe, Restart, Panic, Start, Stop
  <2>7. QED
    BY <2>2, <2>3, <2>4, <2>5, <2>6 DEF Next, Other, vars
<1>3. QED
  BY <1>1, <1>2 DEF IInv, TypeOK, ObjectsTyped, WorkersTyped, Claim, ReplicaSet, Covered, Covers,
                    LocalOK

-----------------------------------------------------------------------------
(* The kinds of steps when nothing fails *)

Same(v) ==
    /\ pc'[v] = pc[v]
    /\ self'[v] = self[v]
    /\ from'[v] = from[v]
    /\ first'[v] = first[v]
    /\ next'[v] = next[v]
    /\ made'[v] = made[v]

\* No reconciliation takes part; a set comes, goes or changes.
Aside ==
    /\ UNCHANGED <<claims, pods>>
    /\ \A s \in Sets, i \in Indices : replica'[s][i] # NULL <=> replica[s][i] # NULL
    /\ \A v \in Workers : Same(v)
    /\ \A s \in Sets : Exists(s)' => Exists(s) \/ asked[s] = NULL

\* A reconciliation begins, goes on or ends before its pass made anything.
Before(w) ==
    /\ UNCHANGED <<set, created>>
    /\ \A v \in Workers : v # w => Same(v)
    /\ made[w] = {} /\ made'[w] = {}
    /\ pc[w] # "pod" /\ pc'[w] # "claim"
    /\ next'[w] = first'[w]

LEMMA ReplicaStays ==
    ASSUME IInv, NEW s \in Sets, NEW i \in Indices, Adopt(s, i) \/ Label(s, i)
    PROVE  \A r \in Sets, j \in Indices : replica'[r][j] # NULL <=> replica[r][j] # NULL
<1>1. replica[s][i] \in Replica /\ replica \in [Sets -> [Indices -> Replica \cup {NULL}]]
      /\ replica[s][i] # NULL
  BY DEF IInv, TypeOK, ObjectsTyped, Adopt, Label
<1>2. /\ [replica[s][i] EXCEPT !.adopted = TRUE] \in Replica
      /\ [replica[s][i] EXCEPT !.labelled = TRUE] \in Replica
  BY <1>1 DEF Replica
<1>3. /\ [replica[s][i] EXCEPT !.adopted = TRUE] # NULL
      /\ [replica[s][i] EXCEPT !.labelled = TRUE] # NULL
  BY <1>2, ConstantsAssumption DEF Replica
<1>4. \/ replica' = [replica EXCEPT ![s][i] = [replica[s][i] EXCEPT !.adopted = TRUE]]
      \/ replica' = [replica EXCEPT ![s][i] = [replica[s][i] EXCEPT !.labelled = TRUE]]
  BY DEF Adopt, Label
<1>5. QED
  BY <1>1, <1>3, <1>4

\* Users and the cluster leave reconciliations, and what these made, alone.
LEMMA OutsideKinds ==
    ASSUME IInv, User \/ Cluster, ~\E s \in Sets : Collect(s)
    PROVE  Aside
<1> USE DEF IInv, TypeOK, objects, created, locals, counters, Same, Aside
<1>1. ASSUME NEW s \in Sets, NEW k \in 0 .. MaxReplicas, NEW all \in BOOLEAN,
             Create(s, k, all)
      PROVE  Aside
  BY <1>1 DEF Create, Exists
<1>2. CASE Delete
  BY <1>2 DEF Delete, Exists, ObjectsTyped, ReplicaSet
<1>3. ASSUME NEW k \in 0 .. MaxReplicas, Scale(k)
      PROVE  Aside
  BY <1>3 DEF Scale, Exists, ObjectsTyped, ReplicaSet
<1>4. ASSUME NEW s \in Sets, NEW i \in Indices, Adopt(s, i) \/ Label(s, i)
      PROVE  Aside
  <2>1. UNCHANGED <<set, claims, pods, locals>>
    BY <1>4 DEF Adopt, Label
  <2>2. QED
    BY <1>4, <2>1, ReplicaStays DEF Exists
<1>5. ASSUME NEW n \in Nodes, AddNode(n) \/ RemoveNode(n) \/ OwnSource(n)
      PROVE  Aside
  BY <1>5 DEF AddNode, RemoveNode, OwnSource, Exists
<1>6. ASSUME NEW o \in Others, NEW as \in {"none", "plain", "labelled"}, Mark(o, as)
      PROVE  Aside
  BY <1>6 DEF Mark, Exists
<1>7. CASE EventsChange
  BY <1>7 DEF EventsChange, Exists
<1>8. QED
  BY <1>1, <1>2, <1>3, <1>4, <1>5, <1>6, <1>7 DEF User, Cluster

LEMMA FaultlessKinds ==
    ASSUME IInv, InOrder, faults = 0, [Next]_vars, faults' = 0
    PROVE  \/ Aside
           \/ \E w \in Workers : \/ Before(w) \/ CreateDataPod(w) \/ AlreadyExists(w)
                                 \/ CreateReplicaClaim(w) \/ CreateSourceClaim(w)
                                 \/ CreateSyncPod(w)
           \/ \E s \in Sets : Collect(s)
<1> USE DEF IInv, TypeOK, WorkersTyped, objects, created, locals, counters, Same
<1>1. ASSUME NEW w \in Workers, AddFinalizer(w) \/ Cleanup(w)
      PROVE  Aside
  BY <1>1 DEF AddFinalizer, Cleanup, Aside, Exists, ObjectsTyped, ReplicaSet
<1>2. ASSUME NEW w \in Workers, Reconcile(w)
      PROVE  Before(w)
  BY <1>2 DEF Reconcile, Goto, Before, LocalOK, Creating, InOrder
<1>3. ASSUME NEW w \in Workers, List(w)
      PROVE  Before(w)
  <2>1. made[w] = {}
    BY <1>3 DEF List, ListCounting, LocalOK, Creating
  <2>2. CASE End(w)
    BY <1>3, <2>1, <2>2 DEF List, ListCounting, End, Goto, Before
  <2>3. CASE Goto(w, "source")
    BY <1>3, <2>1, <2>3 DEF List, ListCounting, End, Goto, Before
  <2>4. QED
    BY <1>3, <2>2, <2>3 DEF List, ListCounting
<1>4. ASSUME NEW w \in Workers, GetSource(w) \/ GetNode(w) \/ ListNodes(w)
      PROVE  Before(w)
  <2>1. made[w] = {} /\ next[w] = first[w]
    BY <1>4 DEF GetSource, GetNode, ListNodes, LocalOK, Creating, InOrder
  <2>2. CASE GetSource(w)
    BY <2>1, <2>2 DEF GetSource, End, Goto, Before
  <2>3. CASE GetNode(w)
    BY <2>1, <2>3 DEF GetNode, End, Goto, Before
  <2>4. CASE ListNodes(w)
    BY <2>1, <2>4 DEF ListNodes, Goto, Before
  <2>5. QED
    BY <1>4, <2>2, <2>3, <2>4
<1>5. ASSUME NEW w \in Workers, Observe(w) \/ Start(w) \/ Stop(w)
      PROVE  Aside
  BY <1>5 DEF Observe, Start, Stop, Change, Aside, Exists
<1>6. CASE (User \/ Cluster) /\ ~\E s \in Sets : Collect(s)
  BY <1>6, OutsideKinds
<1>7. CASE UNCHANGED vars
  BY <1>7 DEF vars, Aside, Exists
<1>8. ~\E w \in Workers : Fail(w) \/ Restart(w) \/ Panic(w)
  BY DEF Fail, Restart, Panic, Fault
<1>9. QED
  BY <1>1, <1>2, <1>3, <1>4, <1>5, <1>6, <1>7, <1>8 DEF Next, Work

LEMMA NameIsFree ==
    ASSUME IInv, NEW w \in Workers, AlreadyExists(w), made[w] # {},
           FirstDecides(self[w].uid, first[w])
    PROVE  FALSE
<1>1. self[w] # NULL /\ self[w] \in ReplicaSet
  BY DEF IInv, TypeOK, WorkersTyped, AlreadyExists, LocalOK
<1>2. next[w] \in Indices
  BY <1>1, ConstantsAssumption
     DEF IInv, TypeOK, WorkersTyped, AlreadyExists, MoreReplicas, Indices, ReplicaSet
<1>3. \A t \in made[w] : t.index \in Nat /\ t.index # next[w]
  BY <1>2 DEF IInv, TypeOK, WorkersTyped, MadeOK, Pending, AlreadyExists, Target, Indices
<1>4. QED
  BY <1>1, <1>2, <1>3 DEF AlreadyExists, FirstDecides, ForSet

-----------------------------------------------------------------------------
(* The first replica decides *)

\* What a new replica is: the DataPod of the next index of its pass.
LEMMA NewReplica ==
    ASSUME IInv, NEW w \in Workers, CreateDataPod(w)
    PROVE  \E n \in Nodes :
            /\ self[w] \in ReplicaSet /\ self[w].uid \in Sets /\ next[w] \in Indices
            /\ [node |-> n, labelled |-> FALSE, adopted |-> FALSE] # NULL
            /\ replica' = [replica EXCEPT ![self[w].uid][next[w]] =
                              [node |-> n, labelled |-> FALSE, adopted |-> FALSE]]
            /\ made' = [made EXCEPT ![w] = @ \cup {[index |-> next[w], node |-> n]}]
<1>1. PICK n \in free[w] :
        /\ replica' = [replica EXCEPT ![self[w].uid][next[w]] =
                          [node |-> n, labelled |-> FALSE, adopted |-> FALSE]]
        /\ made' = [made EXCEPT ![w] = @ \cup {[index |-> next[w], node |-> n]}]
  BY DEF CreateDataPod
<1>2. n \in Nodes
  BY DEF IInv, TypeOK, WorkersTyped
<1>3. self[w] \in ReplicaSet /\ self[w].uid \in Sets /\ next[w] \in Indices
  BY ConstantsAssumption
     DEF IInv, TypeOK, WorkersTyped, CreateDataPod, MoreReplicas, LocalOK, Indices, ReplicaSet
<1>4. [node |-> n, labelled |-> FALSE, adopted |-> FALSE] # NULL
  <2>1. [node |-> n, labelled |-> FALSE, adopted |-> FALSE] \in Replica
    BY <1>2 DEF Replica
  <2>2. QED
    BY <2>1, ConstantsAssumption DEF Replica
<1>5. QED
  BY <1>1, <1>2, <1>3, <1>4

LEMMA InOrderStep ==
    ASSUME IInv, InOrder, faults = 0, [Next]_vars, faults' = 0
    PROVE  InOrder'
<1> USE DEF IInv, TypeOK, WorkersTyped, InOrder, objects, created, locals, counters
<1>1. CASE Aside
  BY <1>1 DEF Aside, Same
<1>2. ASSUME NEW w \in Workers, Before(w)
      PROVE  InOrder'
  BY <1>2 DEF Before, Same
<1>3. ASSUME NEW w \in Workers, CreateDataPod(w)
      PROVE  InOrder'
  <2>1. PICK n \in Nodes :
          made' = [made EXCEPT ![w] = @ \cup {[index |-> next[w], node |-> n]}]
    BY <1>3, NewReplica
  <2>2. UNCHANGED <<next, first>> /\ pc' = [pc EXCEPT ![w] = "claim"]
    BY <1>3 DEF CreateDataPod, Goto
  <2> DEFINE new == [index |-> next[w], node |-> n]
  <2>3. /\ made'[w] = made[w] \cup {new}
        /\ \A v \in Workers : v # w => made'[v] = made[v]
    BY <2>1
  <2>4. new.index = next[w]
    OBVIOUS
  <2> HIDE DEF new
  <2>5. \E t \in made'[w] : t.index = first[w]
    BY <2>3, <2>4
  <2>6. QED
    BY <2>2, <2>3, <2>5
<1>4. ASSUME NEW w \in Workers, AlreadyExists(w) \/ CreateSyncPod(w)
      PROVE  InOrder'
  <2>1. End(w)
    BY <1>4 DEF AlreadyExists, CreateSyncPod
  <2>2. QED
    BY <2>1 DEF End, Goto
<1>5. ASSUME NEW w \in Workers, CreateReplicaClaim(w)
      PROVE  InOrder'
  <2>1. made[w] # {}
    BY <1>5 DEF CreateReplicaClaim
  <2>2. QED
    BY <1>5, <2>1 DEF CreateReplicaClaim, Goto
<1>6. ASSUME NEW w \in Workers, CreateSourceClaim(w)
      PROVE  InOrder'
  BY <1>6 DEF CreateSourceClaim, Goto
<1>7. ASSUME NEW s \in Sets, Collect(s)
      PROVE  InOrder'
  BY <1>7 DEF Collect
<1>8. QED
  BY <1>1, <1>2, <1>3, <1>4, <1>5, <1>6, <1>7, FaultlessKinds

-----------------------------------------------------------------------------
(* Passes that agree have always agreed *)

\* A pass that made something and ends leaves a claim that tells what it
\* counted.
LEMMA ClaimTells ==
    ASSUME IInv, InOrder, NEW w \in Workers, pc[w] \in {"replica", "pod"}, made[w] # {},
           Lives(w)
    PROVE  \E c \in claims : c.set = self[w].uid /\ c.first = first[w]
<1>1. PICK t \in made[w] : t.index = first[w]
  BY DEF InOrder
<1>2. ~Pending(w, t)
  BY DEF Pending
<1>3. ClaimFor(w, t.index, t.node) \in claims
  BY <1>2 DEF IInv, HasClaims
<1>4. /\ ClaimFor(w, t.index, t.node).set = self[w].uid
      /\ ClaimFor(w, t.index, t.node).first = first[w]
  BY DEF ClaimFor
<1>5. QED
  BY <1>3, <1>4

\* A step that leaves the passes of s as they are, but for one that made
\* nothing, and takes no claim away.
LEMMA UniformKept ==
    ASSUME NEW s \in Sets, NEW k \in Indices, Uniform(s, k)', claims \subseteq claims',
           \A v \in Workers : \/ ForSet(v, s) /\ made[v] # {} =>
                                   ForSet(v, s)' /\ made'[v] # {} /\ first'[v] = first[v]
    PROVE  Uniform(s, k)
BY DEF Uniform

LEMMA UniformBack ==
    ASSUME IInv, InOrder, faults = 0, [Next]_vars, faults' = 0,
           NEW s \in Sets, NEW k \in Indices, Exists(s), Uniform(s, k)'
    PROVE  Uniform(s, k)
<1> USE DEF IInv, TypeOK, WorkersTyped, ForSet, objects, created, locals, counters
<1>1. CASE Aside
  BY <1>1, UniformKept DEF Aside, Same
<1>2. ASSUME NEW w \in Workers, Before(w)
      PROVE  Uniform(s, k)
  BY <1>2, UniformKept DEF Before, Same
<1>3. ASSUME NEW w \in Workers, CreateDataPod(w)
      PROVE  Uniform(s, k)
  <2>1. PICK n \in Nodes :
          made' = [made EXCEPT ![w] = @ \cup {[index |-> next[w], node |-> n]}]
    BY <1>3, NewReplica
  <2>2. \A v \in Workers : made[v] # {} => made'[v] # {}
    BY <2>1
  <2>3. QED
    BY <1>3, <2>2, UniformKept DEF CreateDataPod
<1>4. ASSUME NEW w \in Workers, CreateReplicaClaim(w) \/ CreateSourceClaim(w)
      PROVE  Uniform(s, k)
  <2>1. claims \subseteq claims' /\ UNCHANGED <<self, made, first>>
    BY <1>4 DEF CreateReplicaClaim, CreateSourceClaim
  <2>2. QED
    BY <2>1, UniformKept
<1>5. ASSUME NEW w \in Workers, AlreadyExists(w) \/ CreateSyncPod(w)
      PROVE  Uniform(s, k)
  <2>1. /\ UNCHANGED claims
        /\ pc[w] \in {"replica", "pod"}
        /\ \A v \in Workers : v # w =>
              self'[v] = self[v] /\ made'[v] = made[v] /\ first'[v] = first[v]
    BY <1>5 DEF AlreadyExists, CreateSyncPod, End
  <2>2. \A c \in claims : c.set = s => c.first = k
    BY <2>1 DEF Uniform
  <2>3. ASSUME ForSet(w, s), made[w] # {}
        PROVE  first[w] = k
    <3>1. Lives(w)
      BY <2>3 DEF Lives
    <3>2. PICK c \in claims : c.set = self[w].uid /\ c.first = first[w]
      BY <2>1, <2>3, <3>1, ClaimTells
    <3>3. QED
      BY <2>2, <2>3, <3>2
  <2>4. \A v \in Workers : v # w => (ForSet(v, s) /\ made[v] # {} => first[v] = k)
    BY <2>1 DEF Uniform
  <2>5. QED
    BY <2>2, <2>3, <2>4 DEF Uniform
<1>6. ASSUME NEW r \in Sets, Collect(r)
      PROVE  Uniform(s, k)
  BY <1>6 DEF Collect, Exists, Uniform
<1>7. QED
  BY <1>1, <1>2, <1>3, <1>4, <1>5, <1>6, FaultlessKinds

\* Of a set that was never asked for there is nothing.
LEMMA NothingYet ==
    ASSUME IInv, ClaimsAsked, NEW s \in Sets, asked[s] = NULL
    PROVE  /\ \A i \in Indices : replica[s][i] = NULL
           /\ \A c \in claims : c.set # s
           /\ \A w \in Workers : ~ForSet(w, s)
BY DEF IInv, Covered, Covers, ReplicasAsAsked, ClaimsAsked, ForSet

-----------------------------------------------------------------------------
(* A pass that creates replicas creates all there are *)

LEMMA ReplicaOfFirst ==
    ASSUME IInv, InOrder, NEW s \in Sets, NEW k \in Indices, Exists(s),
           Uniform(s, k)', FirstDecides(s, k), NEW w \in Workers, CreateDataPod(w)
    PROVE  FirstDecides(s, k)'
<1> USE DEF IInv, TypeOK, WorkersTyped, ForSet, objects, created
<1>1. PICK n \in Nodes :
        /\ self[w] \in ReplicaSet /\ self[w].uid \in Sets /\ next[w] \in Indices
        /\ [node |-> n, labelled |-> FALSE, adopted |-> FALSE] # NULL
        /\ replica' = [replica EXCEPT ![self[w].uid][next[w]] =
                          [node |-> n, labelled |-> FALSE, adopted |-> FALSE]]
        /\ made' = [made EXCEPT ![w] = @ \cup {[index |-> next[w], node |-> n]}]
  BY NewReplica
<1> DEFINE new == [index |-> next[w], node |-> n]
<1>2. /\ made'[w] = made[w] \cup {new}
      /\ \A v \in Workers : v # w => made'[v] = made[v]
      /\ new.index = next[w]
  BY <1>1
<1> HIDE DEF new
<1>3. /\ replica'[self[w].uid][next[w]] # NULL
      /\ \A i \in Indices : s # self[w].uid \/ i # next[w] => replica'[s][i] = replica[s][i]
  BY <1>1 DEF ObjectsTyped
<1>4. /\ UNCHANGED <<self, first>>
      /\ replica[self[w].uid][next[w]] = NULL
      /\ self[w] # NULL
  BY DEF CreateDataPod, LocalOK
<1>5. CASE self[w].uid # s
  <2>1. ~ForSet(w, s)
    BY <1>5
  <2>2. QED
    BY <1>2, <1>3, <1>4, <1>5, <2>1 DEF FirstDecides
<1>6. CASE self[w].uid = s
  <2>1. first[w] = k /\ Lives(w)
    BY <1>2, <1>4, <1>6 DEF Uniform, Lives
  <2>2. \/ made[w] = {} /\ next[w] = k /\ \A i \in Indices : replica[s][i] = NULL
        \/ made[w] # {} /\ replica[s][k] # NULL
    <3>1. CASE made[w] = {}
      BY <1>4, <1>6, <2>1, <3>1 DEF InOrder, FirstDecides
    <3>2. CASE made[w] # {}
      BY <1>6, <2>1, <3>2 DEF InOrder, Apart
    <3>3. QED
      BY <3>1, <3>2
  <2>3. replica'[s][k] # NULL
    BY <1>3, <1>6, <2>2
  <2>4. ASSUME NEW v \in Workers, v # w, ForSet(v, s), made[v] # {}
        PROVE  FALSE
    <3>1. Lives(v) /\ first[v] = k
      BY <1>2, <1>4, <2>4 DEF Lives, Uniform
    <3>2. PICK x \in made[v] : x.index = k
      BY <2>4, <3>1 DEF InOrder
    <3>3. replica[s][k] # NULL
      BY <2>4, <3>1, <3>2 DEF Apart
    <3>4. PICK z \in made[w] : z.index = k
      BY <2>1, <2>2, <3>3 DEF InOrder
    <3>5. QED
      BY <2>1, <2>4, <3>1, <3>2, <3>4 DEF Apart
  <2>5. ASSUME NEW i \in Indices, replica'[s][i] # NULL
        PROVE  \E t \in made'[w] : t.index = i
    <3>1. CASE i = next[w]
      BY <1>2, <3>1
    <3>2. CASE i # next[w]
      BY <1>2, <1>3, <1>4, <1>6, <2>2, <2>5, <3>2 DEF FirstDecides
    <3>3. QED
      BY <3>1, <3>2
  <2>6. QED
    BY <1>2, <1>4, <2>3, <2>4, <2>5 DEF FirstDecides
<1>7. QED
  BY <1>5, <1>6

LEMMA FirstDecidesStep ==
    ASSUME IInv, InOrder, faults = 0, [Next]_vars, faults' = 0,
           NEW s \in Sets, NEW k \in Indices, Exists(s), Uniform(s, k)', FirstDecides(s, k)
    PROVE  FirstDecides(s, k)'
<1> USE DEF IInv, TypeOK, WorkersTyped, ForSet, FirstDecides, objects, created
<1>1. CASE Aside
  BY <1>1 DEF Aside, Same
<1>2. ASSUME NEW w \in Workers, Before(w)
      PROVE  FirstDecides(s, k)'
  BY <1>2 DEF Before, Same
<1>3. ASSUME NEW w \in Workers, CreateDataPod(w)
      PROVE  FirstDecides(s, k)'
  BY <1>3, ReplicaOfFirst
<1>4. ASSUME NEW w \in Workers, CreateReplicaClaim(w) \/ CreateSourceClaim(w)
      PROVE  FirstDecides(s, k)'
  BY <1>4 DEF CreateReplicaClaim, CreateSourceClaim
<1>5. ASSUME NEW w \in Workers, AlreadyExists(w) \/ CreateSyncPod(w)
      PROVE  FirstDecides(s, k)'
  <2>1. replica' = replica /\ made'[w] = {}
        /\ \A v \in Workers : v # w => self'[v] = self[v] /\ made'[v] = made[v]
    BY <1>5 DEF AlreadyExists, CreateSyncPod, End
  <2>2. QED
    BY <2>1
<1>6. ASSUME NEW r \in Sets, Collect(r)
      PROVE  FirstDecides(s, k)'
  <2>1. UNCHANGED <<self, made>> /\ r # s
    BY <1>6 DEF Collect, locals
  <2>2. \A j \in Indices : replica'[s][j] = replica[s][j]
    BY <1>6, <2>1 DEF Collect, ObjectsTyped
  <2>3. QED
    BY <2>1, <2>2
<1>7. QED
  BY <1>1, <1>2, <1>3, <1>4, <1>5, <1>6, FaultlessKinds

-----------------------------------------------------------------------------
(* A claim has a pod or will have one *)

LEMMA MountedStep ==
    ASSUME IInv, InOrder, faults = 0, [Next]_vars, faults' = 0,
           NEW s \in Sets, NEW k \in Indices, Exists(s), Uniform(s, k),
           FirstDecides(s, k), Mounted(s)
    PROVE  Mounted(s)'
<1> USE DEF IInv, TypeOK, WorkersTyped, ForSet, Mounted, HasPod, WillHavePod, objects, created,
            locals
<1>1. CASE Aside
  BY <1>1 DEF Aside, Same
<1>2. ASSUME NEW w \in Workers, Before(w)
      PROVE  Mounted(s)'
  BY <1>2 DEF Before, Same
<1>3. ASSUME NEW w \in Workers, CreateDataPod(w)
      PROVE  Mounted(s)'
  <2>1. \A v \in Workers : made[v] \subseteq made'[v]
    <3>1. PICK n \in Nodes :
            made' = [made EXCEPT ![w] = @ \cup {[index |-> next[w], node |-> n]}]
      BY <1>3, NewReplica
    <3>2. QED
      BY <3>1
  <2>2. /\ UNCHANGED <<claims, pods, self, from, first>>
        /\ \A v \in Workers : pc[v] = "pod" => pc'[v] = "pod"
    BY <1>3 DEF CreateDataPod, Goto
  <2>3. QED
    BY <2>1, <2>2
<1>4. ASSUME NEW w \in Workers, CreateReplicaClaim(w)
      PROVE  Mounted(s)'
  <2>1. /\ UNCHANGED <<pods, self, from, first, made>>
        /\ \A v \in Workers : pc[v] = "pod" => pc'[v] = "pod"
    BY <1>4 DEF CreateReplicaClaim, Goto
  <2>2. \A c \in claims' : c \in claims \/ \E t \in made[w] : c = ClaimFor(w, t.index, t.node)
    BY <1>4 DEF CreateReplicaClaim
  <2>3. self[w] # NULL
    BY <1>4 DEF CreateReplicaClaim, LocalOK
  <2>4. \A c \in claims', t \in made[w] :
          c = ClaimFor(w, t.index, t.node) => WillHavePod(c, w)'
    BY <2>1, <2>3 DEF ClaimFor
  <2>5. \A c \in claims, v \in Workers : WillHavePod(c, v) => WillHavePod(c, v)'
    BY <2>1
  <2>6. \A c \in claims : HasPod(c) => HasPod(c)'
    BY <2>1
  <2> HIDE DEF WillHavePod, HasPod, ForSet
  <2>7. \A c \in claims' : c \in claims \/ WillHavePod(c, w)'
    BY <2>2, <2>4
  <2>8. \A c \in claims : c.set = s => HasPod(c)' \/ \E v \in Workers : WillHavePod(c, v)'
    BY <2>5, <2>6
  <2>9. QED
    BY <2>7, <2>8
<1>5. ASSUME NEW w \in Workers, CreateSourceClaim(w)
      PROVE  Mounted(s)'
  <2>1. /\ UNCHANGED <<pods, self, from, first, made>>
        /\ pc' = [pc EXCEPT ![w] = "pod"]
        /\ claims' = claims \cup {ClaimFor(w, SOURCE, from[w])}
    BY <1>5 DEF CreateSourceClaim, Goto
  <2>2. self[w] # NULL
    BY <1>5 DEF CreateSourceClaim, LocalOK
  <2>3. \A c \in claims' : c = ClaimFor(w, SOURCE, from[w]) => WillHavePod(c, w)'
    BY <2>1, <2>2 DEF ClaimFor
  <2>4. \A c \in claims, v \in Workers : WillHavePod(c, v) => WillHavePod(c, v)'
    BY <2>1
  <2>5. \A c \in claims : HasPod(c) => HasPod(c)'
    BY <2>1
  <2> HIDE DEF WillHavePod, HasPod, ForSet
  <2>6. \A c \in claims' : c \in claims \/ WillHavePod(c, w)'
    BY <2>1, <2>3
  <2>7. \A c \in claims : c.set = s => HasPod(c)' \/ \E v \in Workers : WillHavePod(c, v)'
    BY <2>4, <2>5
  <2>8. QED
    BY <2>6, <2>7
<1>6. ASSUME NEW w \in Workers, CreateSyncPod(w)
      PROVE  Mounted(s)'
  <2> DEFINE new == [set |-> self[w].uid, source |-> from[w], targets |-> made[w],
                     first |-> first[w]]
  <2>1. /\ pods' = pods \cup {new}
        /\ new.set = self[w].uid /\ new.source = from[w] /\ new.targets = made[w]
        /\ new.first = first[w]
    BY <1>6 DEF CreateSyncPod
  <2>2. UNCHANGED claims /\ \A v \in Workers : v # w => Same(v)
    BY <1>6 DEF CreateSyncPod, End, Goto, Same
  <2> HIDE DEF new
  <2>3. \A c \in claims : WillHavePod(c, w) => HasPod(c)'
    BY <2>1 DEF Mounts
  <2>4. \A c \in claims : HasPod(c) => HasPod(c)'
    BY <2>1
  <2>5. \A c \in claims, v \in Workers : v # w /\ WillHavePod(c, v) => WillHavePod(c, v)'
    BY <2>2 DEF Same
  <2> HIDE DEF HasPod, WillHavePod
  <2>6. QED
    BY <2>2, <2>3, <2>4, <2>5
<1>7. ASSUME NEW w \in Workers, AlreadyExists(w)
      PROVE  Mounted(s)'
  <2>1. /\ UNCHANGED <<claims, pods>>
        /\ pc[w] # "pod"
        /\ \A v \in Workers : v # w => Same(v)
    BY <1>7 DEF AlreadyExists, End, Goto, Same
  <2>2. ForSet(w, s) => made[w] = {}
    BY <1>7, NameIsFree DEF Uniform
  <2>3. \A c \in claims : c.set = s => ~WillHavePod(c, w)
    BY <2>1, <2>2
  <2>4. \A c \in claims, v \in Workers : v # w /\ WillHavePod(c, v) => WillHavePod(c, v)'
    BY <2>1 DEF Same
  <2>5. \A c \in claims : HasPod(c) => HasPod(c)'
    BY <2>1
  <2> HIDE DEF HasPod, WillHavePod
  <2>6. QED
    BY <2>1, <2>3, <2>4, <2>5
<1>8. ASSUME NEW r \in Sets, Collect(r)
      PROVE  Mounted(s)'
  <2>1. /\ UNCHANGED locals /\ r # s
        /\ claims' = {c \in claims : c.set # r}
        /\ pods' = {y \in pods : y.set # r}
    BY <1>8 DEF Collect
  <2>2. QED
    BY <2>1 DEF Mounts
<1>9. QED
  BY <1>1, <1>2, <1>3, <1>4, <1>5, <1>6, <1>7, <1>8, FaultlessKinds

-----------------------------------------------------------------------------
LEMMA FaultsStay ==
    ASSUME IInv, [Next]_vars, faults' = 0
    PROVE  faults = 0
<1> USE DEF counters
<1>1. faults \in Nat
  BY DEF IInv, TypeOK
<1>2. CASE faults' = faults
  BY <1>2
<1>3. CASE faults' = faults + 1
  BY <1>1, <1>3
<1>4. CASE User
  BY <1>2, <1>4 DEF User, Create, Delete, Scale, Label, Mark, EventsChange, AddNode, RemoveNode,
                    Change
<1>5. CASE Cluster
  BY <1>2, <1>5 DEF Cluster, OwnSource, Adopt, Collect, Change
<1>6. ASSUME NEW w \in Workers, Work(w)
      PROVE  faults' = faults
  BY <1>6 DEF Work, AddFinalizer, Reconcile, Cleanup, List, ListCounting, GetSource, GetNode,
              ListNodes, CreateDataPod, AlreadyExists, CreateReplicaClaim, CreateSourceClaim,
              CreateSyncPod
<1>7. ASSUME NEW w \in Workers, Other(w)
      PROVE  faults' = faults \/ faults' = faults + 1
  BY <1>7 DEF Other, Fail, Observe, Restart, Panic, Start, Stop, Fault, Change
<1>8. QED
  BY <1>2, <1>3, <1>4, <1>5, <1>6, <1>7 DEF Next, Other, vars

\* A set that is there now was there before, or nothing is there of it.
LEMMA ExistsBack ==
    ASSUME IInv, InOrder, faults = 0, [Next]_vars, faults' = 0, NEW s \in Sets, Exists(s)'
    PROVE  Exists(s) \/ (asked[s] = NULL /\ Aside)
<1> USE DEF objects
<1>1. CASE Aside
  BY <1>1 DEF Aside
<1>2. CASE UNCHANGED set
  BY <1>2 DEF Exists
<1>3. QED
  BY <1>1, <1>2, FaultlessKinds
     DEF Before, CreateDataPod, AlreadyExists, CreateReplicaClaim, CreateSourceClaim,
         CreateSyncPod, Collect

LEMMA SettledStep ==
    ASSUME IInv, ClaimsAsked, InOrder, Settled, faults = 0, [Next]_vars, faults' = 0
    PROVE  Settled'
<1>1. SUFFICES ASSUME NEW s \in Sets, NEW k \in Indices, Exists(s)', Uniform(s, k)'
               PROVE  FirstDecides(s, k)' /\ Mounted(s)'
  BY DEF Settled
<1>2. CASE Exists(s)
  <2>1. Uniform(s, k)
    BY <1>1, <1>2, UniformBack
  <2>2. FirstDecides(s, k) /\ Mounted(s)
    BY <1>2, <2>1 DEF Settled
  <2>3. QED
    BY <1>1, <1>2, <2>1, <2>2, FirstDecidesStep, MountedStep
<1>3. CASE asked[s] = NULL /\ Aside
  BY <1>3, NothingYet DEF Aside, Same, FirstDecides, Mounted, ForSet
<1>4. QED
  BY <1>1, <1>2, <1>3, ExistsBack

LEMMA NextLeakInv == IInv /\ LeakInv /\ [Next]_vars => LeakInv'
<1> SUFFICES ASSUME IInv, LeakInv, [Next]_vars
             PROVE  LeakInv'
  OBVIOUS
<1>1. ClaimsAsked'
  BY ClaimsAskedStep DEF LeakInv
<1>2. ASSUME faults' = 0
      PROVE  InOrder' /\ Settled'
  <2>1. faults = 0 /\ InOrder /\ Settled
    BY <1>2, FaultsStay DEF LeakInv
  <2>2. QED
    BY <1>2, <2>1, InOrderStep, SettledStep DEF LeakInv
<1>3. QED
  BY <1>1, <1>2 DEF LeakInv

\* A pass of DataReplicaSet::reconcile leaves a claim behind that no pod mounts
\* only if a request failed, a process ended, or passes of its set counted the
\* DataPods differently, however the passes of several processes overlap and
\* whatever users change meanwhile.
THEOREM NoLeak == Spec => []LeakHasACause
<1>1. IInv /\ LeakInv => LeakHasACause
  <2>1. SUFFICES ASSUME IInv, LeakInv, faults = 0, \A w \in Workers : pc[w] = "idle",
                        NEW c \in claims, Exists(c.set),
                        \A d \in claims : d.set = c.set => d.first = c.first
                 PROVE  HasPod(c)
    BY DEF LeakHasACause, HasPod
  <2>2. c.set \in Sets /\ c.first \in Indices
    BY <2>1 DEF IInv, TypeOK, ObjectsTyped, Claim
  <2>3. \A w \in Workers : made[w] = {}
    BY <2>1 DEF IInv, LocalOK, Creating
  <2>4. Uniform(c.set, c.first)
    BY <2>1, <2>3 DEF Uniform
  <2>5. Mounted(c.set)
    BY <2>1, <2>2, <2>4 DEF LeakInv, Settled
  <2>6. \A w \in Workers : ~WillHavePod(c, w)
    BY <2>1, <2>3 DEF WillHavePod
  <2>7. QED
    BY <2>5, <2>6 DEF Mounted
<1>2. QED
  BY <1>1, Invariance, InitLeakInv, NextLeakInv, PTL DEF Spec

=============================================================================
