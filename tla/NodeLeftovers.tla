--------------------------- MODULE NodeLeftovers ---------------------------
(***************************************************************************)
(* NodeService with a history variable, for the question whether a deleted *)
(* pod gets rid of its volume.  It does not always: node_unpublish_volume  *)
(* takes the Mount out of the map before it unmounts, and answers OK when  *)
(* there is none (src/src/services/node.rs:165-172).  The history says to  *)
(* which targets something happened that may leave a mount.                *)
(***************************************************************************)
EXTENDS NodeService

VARIABLE
    left    \* history: left[t]: something happened that may leave a mount on t

hvars == <<vars, left>>

\* A handler of t is dropped: its bind mount goes on unseen, or its bind mount
\* was made and not tracked, or its fuse session was not told to unmount.
DropsMount(t) ==
    /\ Cancel(t)
    /\ \/ pc[t] = "bind"
       \/ pc[t] = "track" /\ Cached(VolumeOf[t])
       \/ pc[t] = "unmount" /\ orphans' = orphans

\* The kubelet does not learn that t is mounted, and may have it mounted again.
MountsTwice(t) == LoseReply(t) /\ op[t] = "publish" /\ reply[t] = "ok"

\* The Mount of t was taken out of the map and its unmount fails.
KeepsMount(t) ==
    \/ lock # NULL /\ lock.target = t /\ UnmountFails(lock.holder)
    \/ OrphanUnmounts(t) /\ depth' = depth

\* The map of tracked mounts is lost.
ForgetsMount(t) == Restart /\ depth[t] > 0

Leaves(t) == DropsMount(t) \/ MountsTwice(t) \/ KeepsMount(t) \/ ForgetsMount(t)

HInit == Init /\ left = [t \in Targets |-> FALSE]

HNext == Next /\ left' = [t \in Targets |-> left[t] \/ Leaves(t)]

HFairSpec == HInit /\ [][HNext]_hvars /\ Fairness

-----------------------------------------------------------------------------
\* A pod that is deleted gets rid of its volume: the unpublish is answered in
\* the end, through failed and dropped calls, lost replies and restarts, and
\* the volume is unmounted for good, unless one of the events above happened to
\* it.  Calls dropped elsewhere, failed mounts and lost replies of unpublish
\* leave nothing.
StoppedIsUnmounted ==
    \A t \in Targets :
        [](kubelet[t] = "stopping" =>
            <>[](kubelet[t] = "gone" /\ (left[t] \/ depth[t] = 0)))

=============================================================================
