--------------------------- MODULE VolumeRegistry ---------------------------
(***************************************************************************)
(* What the controller service promises a CO that talks to it about one    *)
(* volume at a time (the idempotency contract of csi.proto, CreateVolume   *)
(* and DeleteVolume): a name is bound to one volume, every answer about    *)
(* the name tells that volume, and the binding ends only when that volume  *)
(* is deleted.  An id is never used for a second volume.                   *)
(***************************************************************************)
CONSTANTS
    Names,   \* volume names
    Volumes, \* records with a field id
    NULL

VARIABLES
    registered, \* registered[n]: the volume bound to name n, or NULL
    issued,     \* [name, volume] of every binding there has been
    told,       \* [name, volume] of every answer
    removed     \* ids that were deleted

vars == <<registered, issued, told, removed>>

Init ==
    /\ registered = [n \in Names |-> NULL]
    /\ issued = {}
    /\ told = {}
    /\ removed = {}

\* A name without a volume is bound to one with an id never used before.
Register(n, v) ==
    /\ registered[n] = NULL
    /\ \A e \in issued : e.volume.id # v.id
    /\ registered' = [registered EXCEPT ![n] = v]
    /\ issued' = issued \cup {[name |-> n, volume |-> v]}
    /\ UNCHANGED <<told, removed>>

\* An answer about a name tells the volume the name is bound to.
Tell(n) ==
    /\ registered[n] # NULL
    /\ told' = told \cup {[name |-> n, volume |-> registered[n]]}
    /\ UNCHANGED <<registered, issued, removed>>

\* The volume with this id is deleted; its name, if it has one, is free.
Remove(id) ==
    /\ registered' = [n \in Names |->
                        IF registered[n] # NULL /\ registered[n].id = id
                        THEN NULL ELSE registered[n]]
    /\ removed' = removed \cup {id}
    /\ UNCHANGED <<issued, told>>

Next ==
    \/ \E n \in Names :
        \/ \E v \in Volumes : Register(n, v)
        \/ Tell(n)
    \/ \E e \in told : Remove(e.volume.id)

Spec == Init /\ [][Next]_vars

=============================================================================
