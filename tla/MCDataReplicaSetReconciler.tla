--------------------- MODULE MCDataReplicaSetReconciler ---------------------
(* An instance of DataReplicaSetReconciler for TLC.  One DataNode is added    *)
(* after the beginning, the others are there.  DataNodes are alike, and so   *)
(* are processes: which one owns the source and which one runs first is      *)
(* fixed.                                                                    *)
EXTENDS DataReplicaSetReconciler

CONSTANTS Late, Home, First

MCInit ==
    /\ Init
    /\ node = [n \in Nodes |-> IF n = Late THEN "new" ELSE "up"]
    /\ source = Home
    /\ alive = {First}

MCSpec == MCInit /\ [][Next]_vars /\ Fairness

=============================================================================
