--------------------------- MODULE MCNodeService ---------------------------
(* Instances of NodeService for TLC. *)
EXTENDS NodeService, TLC

CONSTANTS v1, v2, v3, t1, t2, t3, f1, f2

\* Each target has a volume of its own, or all share v1.
OwnVolumes == [t \in Targets |-> CASE t = t1 -> v1 [] t = t2 -> v2 [] OTHER -> v3]
SharedVolume == [t \in Targets |-> v1]

\* Mount annotations; "cached" is one the node service does not know.
MixedMounts == [v \in Volumes |-> CASE v = v1 -> "cache" [] v = v2 -> "fuse-read-write"
                                    [] OTHER -> "cached"]
CacheOnly == [v \in Volumes |-> IF v = v1 THEN "cache-read-only" ELSE "cache-read-write"]
FuseOnly == [v \in Volumes |-> "fuse"]

=============================================================================
