--------------------------- MODULE MCReconcilers ----------------------------
(* An instance of DataPodReconciler, with the DataNode reconciler, for TLC:  *)
(* in the beginning one DataNode is there and available, and known to the    *)
(* informer.                                                                 *)
EXTENDS DataPodReconciler

CONSTANTS First, Second, Path

\* A reference with no path, another one with path and selector, a selector.
Written ==
    {[path |-> NULL, ref |-> First, selector |-> FALSE],
     [path |-> Path, ref |-> Second, selector |-> TRUE],
     [path |-> NULL, ref |-> NULL, selector |-> TRUE]}

There == [uid |-> 1, available |-> TRUE,
          finalizer |-> TRUE, deleting |-> FALSE]

MCInit ==
    /\ PodInit
    /\ node = [n \in Nodes |-> IF n = First THEN There ELSE NULL]
    /\ nCache = node
    /\ up = [n \in Nodes |-> TRUE]
    /\ nPc = [n \in Nodes |-> "idle"]
    /\ nSelf = [n \in Nodes |-> NULL]
    /\ checked = {1}
    /\ uids = 1
    /\ running = TRUE
    /\ open = TRUE
    /\ faults = 0

MCSpec == MCInit /\ [][Next]_vars /\ Fairness

=============================================================================
