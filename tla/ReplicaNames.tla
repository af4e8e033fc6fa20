---------------------------- MODULE ReplicaNames ----------------------------
(***************************************************************************)
(* What the fixed names of the replicas promise, whatever passes overlap,  *)
(* fail and begin again: as long as a DataReplicaSet lives each of its     *)
(* replicas is taken once, by one process.  A process serves all that it   *)
(* took by one pod, or drops it; what is dropped is never served, and what *)
(* is served is served for good.                                           *)
(***************************************************************************)
CONSTANTS
    Sets,    \* uids
    Indices, \* of the replicas of a set
    Workers, \* processes
    NULL

VARIABLES
    live,   \* the set there is, or NULL
    past,   \* the sets there have been, live among them
    taken,  \* indices of the replicas there are of the live set
    held,   \* held[w]: those that w took and has no pod for yet
    served  \* those that some pod copies to

vars == <<live, past, taken, held, served>>

Nothing ==
    /\ taken = {}
    /\ held = [w \in Workers |-> {}]
    /\ served = {}

Init ==
    /\ live = NULL
    /\ past = {}
    /\ Nothing

\* A set that never was before comes; there is nothing of it.
Begin(s) ==
    /\ live = NULL
    /\ s \notin past
    /\ live' = s
    /\ past' = past \cup {s}
    /\ UNCHANGED <<taken, held, served>>

\* The set is gone; what becomes of its replicas is another matter.
Finish ==
    /\ live # NULL
    /\ live' = NULL
    /\ past' = past
    /\ Nothing'

Take(w, i) ==
    /\ live # NULL
    /\ i \notin taken
    /\ taken' = taken \cup {i}
    /\ held' = [held EXCEPT ![w] = @ \cup {i}]
    /\ UNCHANGED <<live, past, served>>

\* A pod copies to everything that w took.
Serve(w) ==
    /\ served' = served \cup held[w]
    /\ held' = [held EXCEPT ![w] = {}]
    /\ UNCHANGED <<live, past, taken>>

\* A pass breaks off.
Drop(w) ==
    /\ held' = [held EXCEPT ![w] = {}]
    /\ UNCHANGED <<live, past, taken, served>>

Next ==
    \/ \E s \in Sets : Begin(s)
    \/ Finish
    \/ \E w \in Workers :
        \/ \E i \in Indices : Take(w, i)
        \/ Serve(w)
        \/ Drop(w)

Spec == Init /\ [][Next]_vars

=============================================================================
