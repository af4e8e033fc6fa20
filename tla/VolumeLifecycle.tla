--------------------------- MODULE VolumeLifecycle ---------------------------
(***************************************************************************)
(* What the node service promises a kubelet whose volumes are not shared   *)
(* and whose calls are answered (csi.proto, NodePublishVolume and          *)
(* NodeUnpublishVolume): a volume appears at its target while it is being  *)
(* published, is there as long as its pod may use it, disappears while it  *)
(* is being unpublished, and does not come back.                           *)
(***************************************************************************)
CONSTANT Targets \* paths of volumes in pods

VARIABLES
    phase,    \* phase[t]: "new", "starting", "up", "stopping" or "gone"
    available \* the targets at which the volume can be used

vars == <<phase, available>>

Init ==
    /\ phase = [t \in Targets |-> "new"]
    /\ available = {}

Move(t, from, to) ==
    /\ phase[t] \in from
    /\ phase' = [phase EXCEPT ![t] = to]
    /\ UNCHANGED available

Start(t) == Move(t, {"new"}, "starting")

Appear(t) ==
    /\ phase[t] = "starting"
    /\ t \notin available
    /\ available' = available \cup {t}
    /\ UNCHANGED phase

\* A pod runs with its volume only.
Run(t) == t \in available /\ Move(t, {"starting"}, "up")

\* A pod is deleted, perhaps before it ran.
Stop(t) == Move(t, {"starting", "up"}, "stopping")

Disappear(t) ==
    /\ phase[t] = "stopping"
    /\ t \in available
    /\ available' = available \ {t}
    /\ UNCHANGED phase

\* Nothing of a pod is left on the node.
Finish(t) == t \notin available /\ Move(t, {"stopping"}, "gone")

Next ==
    \E t \in Targets :
        Start(t) \/ Appear(t) \/ Run(t) \/ Stop(t) \/ Disappear(t) \/ Finish(t)

Spec == Init /\ [][Next]_vars

=============================================================================
